---- MODULE Spec2Model ----
(***************************************************************************)
(* A model of the PSF-coefficient management of webbpsf_ext                *)
(* (src/webbpsf_ext/webbpsf_ext_core.py): the instrument object, the       *)
(* on-disk coefficient cache, the process-wide logging level, and the      *)
(* operations gen_psf_coeff, gen_wfedrift_coeff, gen_wfemask_coeff and     *)
(* calc_psf_from_coeff.                                                    *)
(*                                                                         *)
(* Every Python function is an operator from a "world" (instrument, disk,  *)
(* logging level) and its arguments to a result record                     *)
(*     [w |-> world after, exc |-> exception or "none", ret |-> value].    *)
(* An exception leaves the world as it was at the raise.                   *)
(*                                                                         *)
(* Units: angles (mask shifts, bar offsets, positions) are integers in     *)
(* 1e-4 arcsec; jitter sigma is in 1e-4 arcsec as well.                    *)
(***************************************************************************)
EXTENDS Integers, Sequences, FiniteSets, TLC

VARIABLES inst, disk, logging_level, call, ncalls

vars == <<inst, disk, logging_level, call, ncalls>>

\* Python's None and a key an options dict does not hold: as strings where the
\* attribute holds strings, as numbers outside every range where it holds
\* numbers (True and False of an option are 1 and 0, as in Python), and as a
\* record of kind "None" where it holds an object.
NoneVal == "None"
NoneNum == 0 - 1000000
Absent == 0 - 1000001
AbsentStr == "absent"
NoneObj == [kind |-> "None"]

\* The number of API calls and attribute assignments in one behaviour.
MaxCalls == 3

----------------------------------------------------------------------------
(* Strings the code tests with `in` and with indexing, as tables.          *)

NIRCamFilters == {"F335M", "F444W"}
MIRIFilters == {"F1140C"}

\* 'LYOT' in pupil
HasLYOT(s) == s \in {"CIRCLYOT", "WEDGELYOT", "MASKLYOT", "LYOT2300"}
\* 'FQPM' in s
HasFQPM(s) == s \in {"MASKFQPM", "FQPM1140"}
\* 'MASK' in mask
HasMASK(s) == s \in {"MASK335R", "MASKLWB", "MASKFQPM", "MASKLYOT"}
\* 'WB' in mask
HasWB(s) == s \in {"MASKLWB"}
\* mask[-1]
LastChar(s) ==
    CASE s \in {"MASK335R"} -> "R"
      [] s \in {"MASKLWB"} -> "B"
      [] s = "FQPM1140" -> "0"
      [] s = "LYOT2300" -> "0"
      [] OTHER -> "?"
\* 'long' in self.channel: the channel follows the filter's wavelength
IsLongChannel(filter) == filter \in {"F335M", "F444W"}

----------------------------------------------------------------------------
(* Properties of the instrument classes.                                   *)

\* NIRCam_ext.is_lyot
is_lyot(c) == (c.pupil_mask # NoneVal) /\ HasLYOT(c.pupil_mask)

\* NIRCam_ext.is_coron / MIRI_ext.is_coron
is_coron(c) ==
    IF c.name = "NIRCam"
    THEN is_lyot(c) /\ ((c.image_mask # NoneVal) /\ HasMASK(c.image_mask))
    ELSE (c.pupil_mask # NoneVal) /\ (HasLYOT(c.pupil_mask) \/ HasFQPM(c.pupil_mask))

\* oversample property: 2 for a Lyot (NIRCam) or coronagraphic (MIRI) pupil, else 4
oversample(c) ==
    IF c.oversample = NoneNum
    THEN (IF c.name = "NIRCam"
          THEN (IF is_lyot(c) THEN 2 ELSE 4)
          ELSE (IF is_coron(c) THEN 2 ELSE 4))
    ELSE c.oversample

\* quick property: default False for NIRCam_ext, True for MIRI_ext
quick(c) ==
    IF c.quick = NoneVal THEN (c.name # "NIRCam") ELSE (c.quick = "True")

ndegSwapped(c) ==
    IF c.ndeg # NoneNum THEN c.ndeg
    ELSE IF c.name = "NIRCam"
         THEN (IF quick(c) THEN 9 ELSE 7)
         ELSE (IF quick(c) THEN 7 ELSE 4)

\* ndeg property
ndeg(c) ==
    IF c.ndeg # NoneNum THEN c.ndeg
    ELSE IF c.name = "NIRCam"
         THEN (IF c.use_legendre
               THEN (IF quick(c) THEN 7 ELSE 9)
               ELSE (IF quick(c) THEN 7 ELSE 9))
         ELSE (IF c.use_legendre
               THEN (IF quick(c) THEN 4 ELSE 7)
               ELSE (IF quick(c) THEN 4 ELSE 7))

\* (w2 - w1) of self.bandpass in units of 0.01 um: the bandpass module is
\* outside src/, the widths are those of the filters' throughput tables.
BandpassWidth(filter) ==
    CASE filter = "F335M" -> 60
      [] filter = "F444W" -> 130
      [] filter = "F1140C" -> 120
      [] OTHER -> 100

\* int(np.ceil(dn * (w2-w1))) with the width in 0.01 um
CeilDiv100(n) == (n + 99) \div 100

\* int(v) of a number given in halves (11 is 5.5): truncation towards zero
PyInt(halves) ==
    IF halves >= 0 THEN halves \div 2 ELSE 0 - ((0 - halves) \div 2)

npsfWithoutDegreeFloor(c) ==
    LET dn == IF c.name = "NIRCam" THEN 20 ELSE 10
        n0 == IF c.npsf = NoneNum THEN 2 * CeilDiv100(dn * BandpassWidth(c.filter))
              ELSE c.npsf
    IN IF n0 < 2 * 5 THEN 5 ELSE PyInt(n0)

\* npsf property.  The value assigned to npsf is kept in halves, so that
\* int() has something to truncate.
npsf(c) ==
    LET dn == IF c.name = "NIRCam" THEN 20 ELSE 10
        n0 == IF c.npsf = NoneNum THEN 2 * CeilDiv100(dn * BandpassWidth(c.filter))
              ELSE c.npsf
        n1 == IF n0 < 2 * 5 THEN 5 ELSE PyInt(n0)
    IN IF n1 <= ndeg(c) THEN ndeg(c) + 1 ELSE n1

\* dict.get(key, default), for a numeric and for a string option
OptGet(options, key, default) ==
    IF options[key] = Absent THEN default ELSE options[key]
OptGetStr(options, key, default) ==
    IF options[key] = AbsentStr THEN default ELSE options[key]

\* The along-wedge offset webbpsf's NIRCam_BandLimitedCoron picks for a filter
\* (auto_offset); a library table, one non-zero entry per filter.
AutoBarOffset(filter) ==
    CASE filter = "F335M" -> 5000
      [] filter = "F444W" -> -20000
      [] OTHER -> 0

\* NIRCam_ext.get_bar_offset: None unless a bar mask is selected
get_bar_offset(c) ==
    IF (c.image_mask # NoneVal) /\ (LastChar(c.image_mask) = "B")
    THEN LET bar_offset == OptGet(c.options, "bar_offset", NoneNum)
         IN IF bar_offset = NoneNum THEN AutoBarOffset(c.filter) ELSE bar_offset
    ELSE NoneNum

----------------------------------------------------------------------------
(* Results of a call, the logging level, the disk.                         *)

Ok(w, ret, path, nsim) == [w |-> w, exc |-> "none", ret |-> ret, path |-> path, nsim |-> nsim]
Raise(w, e, path, nsim) == [w |-> w, exc |-> e, ret |-> NoneObj, path |-> path, nsim |-> nsim]

\* A setup_logging that can only lower the level to 'WARN'
setup_loggingWarnOnly(w, level) == [w EXCEPT !.log = "WARN"]

\* setup_logging(level): sets the process-wide conf.logging_level
setup_logging(w, level) == [w EXCEPT !.log = level]

\* os.path.exists(outfile)
FileExists(d, fname) == fname \in DOMAIN d.files

\* hdu.writeto(outfile, overwrite=True) / np.savez(outname, ...)
WriteFile(d, fname, content) ==
    [d EXCEPT !.files = [n \in (DOMAIN d.files) \cup {fname} |->
                            IF n = fname THEN content ELSE d.files[n]]]

\* _gen_save_dir: the default directory is segmented by instrument name and
\* is created when it does not exist
_gen_save_dir(w) ==
    LET dir == IF w.inst.cfg.save_dir = NoneVal THEN w.inst.cfg.name
               ELSE w.inst.cfg.save_dir
    IN [w |-> [w EXCEPT !.disk.dirs = @ \cup {dir}], ret |-> dir]

----------------------------------------------------------------------------
(* OPD sources.  A pupil OPD is a (file, slice) tuple, an HDUList or an    *)
(* OTE linear model; a linear model carries the drift applied to it.       *)

NoDrift == [therm_sq5 |-> 0, frill_sq5 |-> 0, iec |-> 0]

\* rev = [s for s in opd_name.split('_') if "Rev" in s]
RevOf(file) ==
    IF file \in {"OPD_RevW_ote_for_NIRCam_predicted.fits",
                 "OPD_RevW_ote_for_MIRI_predicted.fits"}
    THEN "RevW" ELSE ""

\* _get_opd_info without its logging bracket: the names and the linear model
opd_info(c, opd_arg, HDUL_to_OTELM) ==
    LET opd1 == IF opd_arg.kind = "None" THEN c.pupilopd ELSE opd_arg
        opd == IF opd1.kind = "None" THEN c.opd_default ELSE opd1
    IN CASE opd.kind = "tuple" ->
              [exc |-> "none", opd_name |-> opd.file, opd_num |-> opd.slice,
               opd_str |-> [tag |-> RevOf(opd.file), slice |-> opd.slice],
               pupilopd |-> IF HDUL_to_OTELM
                            THEN [kind |-> "lm", origin |-> opd.file, slice |-> opd.slice,
                                  own |-> FALSE, drift |-> NoDrift]
                            ELSE [kind |-> "hdul", origin |-> opd.file, slice |-> opd.slice]]
         [] opd.kind = "hdul" ->
              [exc |-> "none", opd_name |-> "OPD from FITS HDUlist", opd_num |-> 0,
               opd_str |-> [tag |-> "OPDcustomFITS", slice |-> NoneNum],
               pupilopd |-> IF HDUL_to_OTELM
                            THEN [kind |-> "lm", origin |-> opd.origin, slice |-> 0,
                                  own |-> FALSE, drift |-> NoDrift]
                            ELSE opd]
         [] opd.kind = "lm" ->
              [exc |-> "none", opd_name |-> "OPD from OTE LM", opd_num |-> 0,
               opd_str |-> [tag |-> "OPDcustomLM", slice |-> NoneNum], pupilopd |-> opd]
         [] OTHER ->
              [exc |-> "ValueError", opd_name |-> "", opd_num |-> 0,
               opd_str |-> [tag |-> "", slice |-> NoneNum], pupilopd |-> NoneObj]

\* _get_opd_info: the level is set to 'WARN' and set back to the level read
\* at entry; a raise leaves it at 'WARN'
OpdInfoResult(w, info) ==
    IF info.exc # "none" THEN Raise(setup_logging(w, "WARN"), info.exc, "opd", 0)
    ELSE Ok(setup_logging(setup_logging(w, "WARN"), w.log), info, "opd", 0)

_get_opd_info(w, opd_arg, HDUL_to_OTELM) ==
    OpdInfoResult(w, opd_info(w.inst.cfg, opd_arg, HDUL_to_OTELM))

\* A split that gives the IEC heaters their 1 nm from 2 nm on
DriftSplitFromTwo(wfe_drift) ==
    IF wfe_drift > 0
    THEN LET wfe_iec == IF wfe_drift >= 2 THEN 1 ELSE 0
             wfe_remain_var == wfe_drift * wfe_drift - wfe_iec * wfe_iec
         IN [therm_sq5 |-> wfe_remain_var, frill_sq5 |-> 4 * wfe_remain_var, iec |-> wfe_iec]
    ELSE [therm_sq5 |-> 0, frill_sq5 |-> 0, iec |-> 0]

\* _drift_opd: the split of a drift amplitude (nm) into IEC, frill and thermal
\* terms; the squares of frill and thermal are kept, times 5
DriftSplit(wfe_drift) ==
    IF wfe_drift > 0
    THEN LET wfe_iec == IF wfe_drift > 2 THEN 1 ELSE 0
             wfe_remain_var == wfe_drift * wfe_drift - wfe_iec * wfe_iec
         IN [therm_sq5 |-> wfe_remain_var, frill_sq5 |-> 4 * wfe_remain_var, iec |-> wfe_iec]
    ELSE NoDrift

\* _drift_opd once the linear model is at hand: it is drifted in place
DriftOpdResult(r, wfe_drift) ==
    IF r.exc # "none" THEN r
    ELSE Ok(r.w, [therm |-> DriftSplit(wfe_drift).therm_sq5,
                  frill |-> DriftSplit(wfe_drift).frill_sq5,
                  iec |-> DriftSplit(wfe_drift).iec,
                  opd |-> IF wfe_drift > 0
                          THEN [r.ret.pupilopd EXCEPT !.drift = DriftSplit(wfe_drift)]
                          ELSE r.ret.pupilopd], "drift", 0)

_drift_opd(w, wfe_drift, opd_arg) ==
    DriftOpdResult(_get_opd_info(w, opd_arg, TRUE), wfe_drift)

----------------------------------------------------------------------------
(* The cache file name.  A formatted number is the sign and the magnitude  *)
(* rounded to the digits of the format, so that two values the format      *)
(* prints alike give the same name.                                        *)

\* '{:.nf}'.format(v): v in units of 1/q of the last printed digit
Fmt(v, q) ==
    LET a == IF v < 0 THEN 0 - v ELSE v
        f == a \div q
        r == a % q
        m == IF (2 * r > q) \/ (2 * r = q /\ f % 2 = 1) THEN f + 1 ELSE f
    IN [neg |-> v < 0, mag |-> m]

NoStr == [neg |-> FALSE, mag |-> NoneNum]

\* _gen_save_name
_gen_save_name(c, wfe_drift) ==
    LET fstr == IF quick(c) THEN c.filter ELSE ""
        mstr == IF c.image_mask = NoneVal THEN "NONE" ELSE c.image_mask
        pstr == IF c.pupil_mask = NoneVal THEN "CLEAR" ELSE c.pupil_mask
        chan_str == IF c.name = "NIRCam"
                    THEN (IF IsLongChannel(c.filter) THEN "LW" ELSE "SW")
                    ELSE ""
        module == IF c.name = "NIRCam" THEN c.module ELSE ""
        bar_offset == IF c.name = "NIRCam" THEN get_bar_offset(c) ELSE NoneNum
        bar_str == IF bar_offset = NoneNum THEN NoStr ELSE Fmt(bar_offset, 100)
        jitter == OptGetStr(c.options, "jitter", NoneVal)
        jitter_sigma0 == OptGet(c.options, "jitter_sigma", 0)
        jitter_sigma == IF (jitter = NoneVal) \/ (jitter_sigma0 = NoneNum)
                        THEN 0 ELSE jitter_sigma0
        offset_r0 == OptGet(c.options, "source_offset_r", 0)
        offset_theta0 == OptGet(c.options, "offset_theta", 0)
        offset_r == IF offset_r0 = NoneNum THEN 0 ELSE offset_r0
        offset_theta == IF offset_theta0 = NoneNum THEN 0 ELSE offset_theta0
        coron_shift_x0 == OptGet(c.options, "coron_shift_x", 0)
        coron_shift_y0 == OptGet(c.options, "coron_shift_y", 0)
        coron_shift_x == IF coron_shift_x0 = NoneNum THEN 0 ELSE coron_shift_x0
        coron_shift_y == IF coron_shift_y0 = NoneNum THEN 0 ELSE coron_shift_y0
        moff_str1 == IF coron_shift_x = 0 THEN NoStr ELSE Fmt(coron_shift_x, 10)
        moff_str2 == IF coron_shift_y = 0 THEN NoStr ELSE Fmt(coron_shift_y, 10)
        opd_str == opd_info(c, NoneObj, TRUE).opd_str
    IN [chan |-> chan_str, module |-> module, fstr |-> fstr, pstr |-> pstr,
        mstr |-> mstr, pix |-> c.fov_pix, os |-> oversample(c),
        jsig |-> Fmt(jitter_sigma, 10),
        r |-> Fmt(offset_r, 100), th |-> Fmt(offset_theta, 10),
        mx |-> moff_str1, my |-> moff_str2, bar |-> bar_str,
        opd |-> opd_str,
        nm |-> IF wfe_drift > 0 THEN wfe_drift ELSE NoneNum,
        siwfe |-> c.include_si_wfe, legendre |-> c.use_legendre]

\* save_name property: the name set by the caller, else gen_save_name() with
\* its default wfe_drift=0
save_name(c) ==
    IF c.save_name.kind = "None" THEN _gen_save_name(c, 0) ELSE c.save_name

\* outfile = self.save_dir + save_name (+ the suffix of a correction model)
OutFile(dir, sname, ext) == [dir |-> dir, base |-> sname, ext |-> ext]

----------------------------------------------------------------------------
(* gen_psf_coeff.  A coefficient cube is known by what produced it: the    *)
(* stripped copy of the instrument handed to the workers (every attribute  *)
(* and option, the drifted pupil OPD included).                            *)

\* The header written beside a fitted cube (the gen_psf_coeff() keywords)
CoeffHeader(c, a, info, wfe_dict, sname) ==
    [kind |-> "hdr",
     NWAVES |-> npsf(c), PUPILOPD |-> info.opd_name, OPDSLICE |-> info.opd_num,
     FOVPIX |-> c.fov_pix, OSAMP |-> oversample(c), NPSF |-> npsf(c),
     NDEG |-> ndeg(c), LEGNDR |-> c.use_legendre,
     OFFR |-> OptGet(c.options, "source_offset_r", NoneNum),
     OFFTH |-> OptGet(c.options, "offset_theta", NoneNum),
     BAROFF |-> IF (c.image_mask # NoneVal) /\ HasWB(c.image_mask)
                THEN OptGet(c.options, "bar_offset", NoneNum) ELSE Absent,
     MASKOFFX |-> OptGet(c.options, "coron_shift_x", NoneNum),
     MASKOFFY |-> OptGet(c.options, "coron_shift_y", NoneNum),
     JITRTYPE |-> OptGetStr(c.options, "jitter", NoneVal),
     JITRSIGM |-> OptGet(c.options, "jitter_sigma", 0),
     OPD |-> "OTE Linear Model", WFEDRIFT |-> a.wfe_drift,
     OTETHRWF |-> wfe_dict.therm, OTEFRLWF |-> wfe_dict.frill,
     OTEIECWF |-> wfe_dict.iec, SIWFE |-> c.include_si_wfe,
     FORCE |-> a.force, SAVE |-> a.save, FILENAME |-> sname]

StoreCoeffAlways(inst_, return_results, data, hdr) ==
    [inst_ EXCEPT !.psf_coeff = data, !.psf_coeff_header = hdr]

\* The attributes a call with return_results=False sets; with
\* return_results=True the object keeps what it had
StoreCoeff(inst_, return_results, data, hdr) ==
    IF return_results = FALSE
    THEN [inst_ EXCEPT !.psf_coeff = data, !.psf_coeff_header = hdr]
    ELSE inst_

\* The file a call of _gen_psf_coeff looks up and writes: self.save_name
PsfCoeffSaveName(c, wfe_drift) == save_name(c)

\* self.pupilopd = opd_new; self.pupil = opd_new
SwapPupil(w, opd_new) ==
    [w EXCEPT !.inst.cfg.pupilopd = opd_new, !.inst.cfg.pupil = opd_new]

\* "Reset pupils": the copies were made after the drift, and a linear model
\* configured as self.pupilopd is the object that was drifted
ResetPupil(w, opd_new) ==
    [w EXCEPT !.inst.cfg.pupilopd = IF @.kind = "lm" THEN opd_new ELSE @]

\* The end of _gen_psf_coeff: save, store or return the fitted cube
SaveAndStore(w, a, coeff_all, hdr, outfile, nsim) ==
    Ok([w EXCEPT !.disk = IF a.save
                          THEN WriteFile(@, outfile, [data |-> coeff_all, hdr |-> hdr])
                          ELSE @,
                 !.inst = StoreCoeff(@, a.return_results, coeff_all, hdr)],
       IF a.return_results THEN [kind |-> "coeff", data |-> coeff_all, hdr |-> hdr]
       ELSE NoneObj,
       "compute", nsim)

\* What a worker hands back for its item: a result, None, or an exception
WorkerOk == [kind |-> "ok", exc |-> "none"]
WorkerNone == [kind |-> "none", exc |-> "none"]
WorkerRaises(e) == [kind |-> "raise", exc |-> e]

\* for res in pool.imap_unordered(...): results are appended in the order
\* the workers complete, until one of them arrives as an exception
RECURSIVE ImapUnordered(_, _, _)
ImapUnordered(outcomes, i, collected) ==
    IF i > Len(outcomes) THEN [exc |-> "none", collected |-> collected]
    ELSE IF outcomes[i].kind = "raise"
    THEN [exc |-> outcomes[i].exc, collected |-> collected]
    ELSE ImapUnordered(outcomes, i + 1, Append(collected, outcomes[i]))

PoolAfterImapSwallows(it) ==
    [exc |-> "none", terminated |-> TRUE, ret |-> it.collected]

\* try: with mp.Pool(n) as pool: ...; if arr[0] is None: raise RuntimeError
\* except Exception as e: pool.terminate(); pool.close(); raise e
\* Leaving the with block terminates the pool as well.
PoolAfterImap(it) ==
    IF it.exc # "none" THEN [exc |-> it.exc, terminated |-> TRUE, ret |-> << >>]
    ELSE IF Len(it.collected) = 0
    THEN [exc |-> "IndexError", terminated |-> TRUE, ret |-> << >>]
    ELSE IF it.collected[1].kind = "none"
    THEN [exc |-> "RuntimeError", terminated |-> TRUE, ret |-> << >>]
    ELSE [exc |-> "none", terminated |-> TRUE, ret |-> it.collected]

\* for wa in worker_arguments: hdu = _wrap_coeff_for_mp(wa); a None raises
RECURSIVE SerialRun(_, _, _)
SerialRun(outcomes, i, collected) ==
    IF i > Len(outcomes) THEN [exc |-> "none", terminated |-> FALSE, ret |-> collected]
    ELSE IF outcomes[i].kind = "raise"
    THEN [exc |-> outcomes[i].exc, terminated |-> FALSE, ret |-> << >>]
    ELSE IF outcomes[i].kind = "none"
    THEN [exc |-> "RuntimeError", terminated |-> FALSE, ret |-> << >>]
    ELSE SerialRun(outcomes, i + 1, Append(collected, outcomes[i]))

\* for hdu in hdu_arr: images.append(hdu.data)
ExtractImages(run) ==
    IF run.exc # "none" THEN run
    ELSE IF \E i \in 1..Len(run.ret) : run.ret[i].kind = "none"
    THEN [exc |-> "AttributeError", terminated |-> run.terminated, ret |-> << >>]
    ELSE run

\* The monochromatic simulations of _gen_psf_coeff, pooled when nproc > 1
SimulatePsfs(nproc, outcomes) ==
    ExtractImages(IF nproc > 1 THEN PoolAfterImap(ImapUnordered(outcomes, 1, << >>))
                  ELSE SerialRun(outcomes, 1, << >>))

\* The workers of a failing simulation: the first to complete hands back
\* nothing
FailingWorkers(n) == [i \in 1..n |-> IF i = 1 THEN WorkerNone ELSE WorkerOk]

\* The simulation over the wavelengths with the drifted OPD in place, by
\* workers that are handed a copy of the object; a failing worker raises
\* with the pupils swapped and the level at 'WARN'
Simulate(w, log_prev, info, wfe_dict, a, fail, outfile) ==
    IF fail
    THEN Raise(setup_logging(SwapPupil(w, wfe_dict.opd), "WARN"),
               SimulatePsfs(2, FailingWorkers(npsf(w.inst.cfg))).exc,
               "compute", npsf(w.inst.cfg))
    ELSE SaveAndStore(setup_logging(ResetPupil(w, wfe_dict.opd), log_prev), a,
                      [kind |-> "cube", inst_copy |-> SwapPupil(w, wfe_dict.opd).inst.cfg],
                      CoeffHeader(w.inst.cfg, a, info, wfe_dict, outfile.base),
                      outfile, npsf(w.inst.cfg))

\* The OPD of the simulation: drifted when wfe_drift > 0
DriftForCompute(r_opd, wfe_drift) ==
    IF wfe_drift > 0 THEN _drift_opd(r_opd.w, wfe_drift, r_opd.ret.pupilopd)
    ELSE Ok(r_opd.w, [therm |-> 0, frill |-> 0, iec |-> 0, opd |-> r_opd.ret.pupilopd],
            "drift", 0)

ComputeDrifted(log_prev, info, r_d, a, fail, outfile) ==
    IF r_d.exc # "none" THEN Raise(r_d.w, r_d.exc, "compute", 0)
    ELSE Simulate(r_d.w, log_prev, info, r_d.ret, a, fail, outfile)

ComputeWithOpd(log_prev, r_opd, a, fail, outfile) ==
    IF r_opd.exc # "none" THEN Raise(r_opd.w, r_opd.exc, "compute", 0)
    ELSE ComputeDrifted(log_prev, r_opd.ret, DriftForCompute(r_opd, a.wfe_drift),
                        a, fail, outfile)

\* The part of _gen_psf_coeff after the cache lookup: simulate, fit, save
ComputePsfCoeff(w0, a, fail, outfile) ==
    ComputeWithOpd(w0.log, _get_opd_info(setup_logging(w0, "WARN"), NoneObj, TRUE),
                   a, fail, outfile)

\* The cache-hit branch of _gen_psf_coeff: load the stored cube and header
LoadPsfCoeff(w0, a, outfile) ==
    IF a.return_results
    THEN Ok(w0, [kind |-> "coeff", data |-> w0.disk.files[outfile].data,
                 hdr |-> w0.disk.files[outfile].hdr], "hit", 0)
    ELSE Ok([w0 EXCEPT !.inst = StoreCoeff(@, a.return_results,
                                           w0.disk.files[outfile].data,
                                           w0.disk.files[outfile].hdr)],
            NoneObj, "hit", 0)

LookupPsfCoeffAlwaysComputes(w0, outfile, a, fail) ==
    ComputePsfCoeff(w0, a, fail, outfile)

\* The cache lookup of _gen_psf_coeff
LookupPsfCoeff(w0, outfile, a, fail) ==
    IF FileExists(w0.disk, outfile) /\ ~a.force
    THEN LoadPsfCoeff(w0, a, outfile)
    ELSE ComputePsfCoeff(w0, a, fail, outfile)

\* _gen_psf_coeff
_gen_psf_coeff(w, a, fail) ==
    LookupPsfCoeff(_gen_save_dir(w).w,
                   OutFile(_gen_save_dir(w).ret,
                           PsfCoeffSaveName(w.inst.cfg, a.wfe_drift), ".fits"),
                   a, fail)

\* NIRCam_ext.gen_psf_coeff sets options['bar_offset'] back when the call
\* has returned
RestoreBarOffset(res, is_nircam, bar_offset_orig) ==
    IF is_nircam /\ (res.exc = "none")
    THEN [res EXCEPT !.w.inst.cfg.options["bar_offset"] = bar_offset_orig]
    ELSE res

\* NIRCam_ext.gen_psf_coeff sets options['bar_offset'] around the call;
\* MIRI_ext.gen_psf_coeff calls through
gen_psf_coeff(w, a, fail) ==
    RestoreBarOffset(
        _gen_psf_coeff([w EXCEPT !.inst.cfg.options["bar_offset"] =
                            IF w.inst.cfg.name = "NIRCam" THEN a.bar_offset ELSE @],
                       a, fail),
        w.inst.cfg.name = "NIRCam",
        OptGet(w.inst.cfg.options, "bar_offset", NoneNum))

----------------------------------------------------------------------------
(* gen_wfedrift_coeff: the sweep of gen_psf_coeff over the drift list.     *)

_fovmax_wfedrift == 256
_fovmax_wfefield == 128

\* fov_max = fovmax if oversample<=4 else fovmax/2; a larger fov_pix becomes
\* fov_max when even and fov_max+1 when odd
FovCap(c, fovmax) ==
    LET fov_max == IF oversample(c) <= 4 THEN fovmax ELSE fovmax \div 2
    IN IF c.fov_pix > fov_max
       THEN (IF c.fov_pix % 2 = 0 THEN fov_max ELSE fov_max + 1)
       ELSE c.fov_pix

\* The keywords every sweep passes to self.gen_psf_coeff
SweepArgs(wfe_drift) ==
    [wfe_drift |-> wfe_drift, force |-> TRUE, save |-> FALSE,
     return_results |-> TRUE, bar_offset |-> 0]

\* cf.shape of a coefficient cube: ndeg+1 planes of fov_pix*oversample
\* pixels on a side; of a placeholder, the shape it was made with
CubeShape(cf) ==
    IF cf.kind = "zeros" THEN cf.shape
    ELSE <<ndeg(cf.inst_copy) + 1, cf.inst_copy.fov_pix * oversample(cf.inst_copy)>>

\* np.array(cubes) of cubes that are not all of one shape raises
RaggedCubes(cubes) ==
    \E i \in 1..Len(cubes) : CubeShape(cubes[i]) # CubeShape(cubes[1])

\* np.array(cubes) - coeff0 of shapes that cannot be broadcast raises
ShapesDiffer(cubes, coeff0) ==
    \E i \in 1..Len(cubes) : CubeShape(cubes[i]) # CubeShape(coeff0)

RECURSIVE SeqMin(_)
SeqMin(s) ==
    IF Len(s) = 1 THEN s[1]
    ELSE LET m == SeqMin(Tail(s)) IN IF s[1] < m THEN s[1] ELSE m

RECURSIVE SeqMax(_)
SeqMax(s) ==
    IF Len(s) = 1 THEN s[1]
    ELSE LET m == SeqMax(Tail(s)) IN IF s[1] > m THEN s[1] ELSE m

\* for wfe_drift in wfe_list: cf, _ = self.gen_psf_coeff(wfe_drift=wfe_drift, ...)
\* The call number failAt of the sweep is the one whose workers fail.
RECURSIVE DriftSweep(_, _, _, _, _, _)
RECURSIVE DriftSweepNext(_, _, _, _, _, _)
DriftSweep(w, wfe_list, i, failAt, cf_wfe, nsim) ==
    IF i > Len(wfe_list) THEN Ok(w, [kind |-> "cubes", cf |-> cf_wfe], "sweep", nsim)
    ELSE DriftSweepNext(gen_psf_coeff(w, SweepArgs(wfe_list[i]), failAt = i),
                        wfe_list, i, failAt, cf_wfe, nsim)

DriftSweepNext(r, wfe_list, i, failAt, cf_wfe, nsim) ==
    IF r.exc # "none" THEN Raise(r.w, r.exc, "sweep", nsim + r.nsim)
    ELSE DriftSweep(r.w, wfe_list, i + 1, failAt, Append(cf_wfe, r.ret.data),
                    nsim + r.nsim)

\* jl_poly_fit of the residuals cf - cf[0] against the drift values
DriftFit(cf_wfe, wfe_list) ==
    [kind |-> "fit", ref |-> cf_wfe[1], cf |-> cf_wfe, x |-> wfe_list, deg |-> 4]

\* lxmap = [min(wfe_list), max(wfe_list)]
DriftLxmap(wfe_list) ==
    [kind |-> "lxmap", lo |-> SeqMin(wfe_list), hi |-> SeqMax(wfe_list)]

\* The end of _gen_wfedrift_coeff: save, then return or store the fits
FinishWfeDrift(w, a, cf_fit, cf_fit_off, lxmap, outname, nsim) ==
    IF a.return_results
    THEN Ok([w EXCEPT !.disk = IF a.save
                               THEN WriteFile(@, outname, [arr_0 |-> cf_fit,
                                        arr_1 |-> cf_fit_off, arr_2 |-> lxmap])
                               ELSE @],
            [kind |-> "wfedrift", cf_fit |-> cf_fit, cf_fit_off |-> cf_fit_off,
             lxmap |-> lxmap], "compute", nsim)
    ELSE Ok([w EXCEPT !.disk = IF a.save
                               THEN WriteFile(@, outname, [arr_0 |-> cf_fit,
                                        arr_1 |-> cf_fit_off, arr_2 |-> lxmap])
                               ELSE @,
                      !.inst.mod.wfe_drift = cf_fit,
                      !.inst.mod.wfe_drift_off = cf_fit_off,
                      !.inst.mod.wfe_drift_lxmap = lxmap],
            NoneObj, "compute", nsim)

\* After the sweeps, with fov_pix, image mask and level back in place: the
\* raw cubes are returned, or the fits made
EndWfeDrift(w, a, cf_wfe, cf_wfe_off, outname, nsim) ==
    IF a.return_raw
    THEN Ok(w, [kind |-> "raw", cf_wfe |-> cf_wfe, cf_wfe_off |-> cf_wfe_off,
                wfe_list |-> a.wfe_list], "raw", nsim)
    ELSE FinishWfeDrift(w, a, DriftFit(cf_wfe, a.wfe_list),
                        IF cf_wfe_off.kind = "None" THEN NoneObj
                        ELSE DriftFit(cf_wfe_off.cf, a.wfe_list),
                        DriftLxmap(a.wfe_list), outname, nsim)

\* The cache-hit branch of _gen_wfedrift_coeff.  np.savez pickles an array
\* that is None, and np.load refuses to unpickle it: reading arr_1 of a file
\* saved without an off-axis fit raises
LoadWfeDrift(w, a, out) ==
    IF a.return_results
    THEN IF out.arr_1.kind = "None" THEN Raise(w, "ValueError", "hit", 0)
         ELSE Ok(w, [kind |-> "wfedrift", cf_fit |-> out.arr_0,
                     cf_fit_off |-> out.arr_1, lxmap |-> out.arr_2], "hit", 0)
    ELSE IF out.arr_1.kind = "None"
         THEN Raise([w EXCEPT !.inst.mod.wfe_drift = out.arr_0], "ValueError", "hit", 0)
         ELSE Ok([w EXCEPT !.inst.mod.wfe_drift = out.arr_0,
                           !.inst.mod.wfe_drift_off = out.arr_1,
                           !.inst.mod.wfe_drift_lxmap = out.arr_2],
                 NoneObj, "hit", 0)

\* After the off-axis sweep of a coronagraphic instrument: the image mask,
\* fov_pix and the level are put back
AfterOffAxis(log_prev, cf_wfe, image_mask_orig, s2, a, fov_pix_orig, outname) ==
    IF s2.exc # "none" THEN Raise(s2.w, s2.exc, "compute", s2.nsim)
    ELSE EndWfeDrift(setup_logging([s2.w EXCEPT !.inst.cfg.image_mask = image_mask_orig,
                                                !.inst.cfg.fov_pix = fov_pix_orig],
                                   log_prev),
                     a, cf_wfe, s2.ret, outname, s2.nsim)

\* After the sweep: a coronagraphic instrument is swept again with the image
\* mask off; else fov_pix and the level are put back
AfterOnAxis(log_prev, s1, a, failAt, fov_pix_orig, outname) ==
    IF s1.exc # "none" THEN Raise(s1.w, s1.exc, "compute", s1.nsim)
    ELSE IF is_coron(s1.w.inst.cfg)
    THEN AfterOffAxis(log_prev, s1.ret.cf, s1.w.inst.cfg.image_mask,
                      DriftSweep([s1.w EXCEPT !.inst.cfg.image_mask = NoneVal],
                                 a.wfe_list, 1, failAt - Len(a.wfe_list), <<>>, s1.nsim),
                      a, fov_pix_orig, outname)
    ELSE EndWfeDrift(setup_logging([s1.w EXCEPT !.inst.cfg.fov_pix = fov_pix_orig],
                                   log_prev),
                     a, s1.ret.cf, NoneObj, outname, s1.nsim)

\* The sweeps of _gen_wfedrift_coeff
SweepWfeDrift(w, a, failAt, fov_pix_orig, outname) ==
    AfterOnAxis(w.log, DriftSweep(setup_logging(w, "WARN"), a.wfe_list, 1, failAt, <<>>, 0),
                a, failAt, fov_pix_orig, outname)

\* _gen_wfedrift_coeff once fov_pix is capped and the file is named: the
\* cache lookup, the reading of the mask shifts, the sweeps
WfeDriftAt(w, outname, fov_pix_orig, a, failAt) ==
    IF (~a.force) /\ FileExists(w.disk, outname)
    THEN LoadWfeDrift([w EXCEPT !.inst.cfg.fov_pix = fov_pix_orig], a,
                      w.disk.files[outname])
    ELSE IF (w.inst.cfg.options["coron_shift_x"] = Absent)
            \/ (w.inst.cfg.options["coron_shift_y"] = Absent)
    THEN Raise(w, "KeyError", "compute", 0)
    ELSE SweepWfeDrift(w, a, failAt, fov_pix_orig, outname)

WfeDriftNamed(d, fov_pix_orig, a, failAt) ==
    WfeDriftAt(d.w, OutFile(d.ret, save_name(d.w.inst.cfg), "_wfedrift.npz"),
               fov_pix_orig, a, failAt)

\* _gen_wfedrift_coeff
_gen_wfedrift_coeff(w, a, failAt) ==
    WfeDriftNamed(
        _gen_save_dir([w EXCEPT !.inst.cfg.fov_pix = FovCap(w.inst.cfg, _fovmax_wfedrift)]),
        w.inst.cfg.fov_pix, a, failAt)

\* NIRCam_ext.gen_wfedrift_coeff sets options['bar_offset'] to the header's
\* BAROFF inside try/finally, and returns 0 when there is no header;
\* MIRI_ext.gen_wfedrift_coeff calls through
FinallyBarOffset(res, bar_offset_orig) ==
    [res EXCEPT !.w.inst.cfg.options["bar_offset"] = bar_offset_orig]

gen_wfedrift_coeff(w, a, failAt) ==
    IF w.inst.cfg.name = "NIRCam"
    THEN IF w.inst.psf_coeff_header.kind = "None"
         THEN Ok([w EXCEPT !.inst.cfg.options["bar_offset"] =
                              OptGet(w.inst.cfg.options, "bar_offset", NoneNum)],
                 [kind |-> "int", v |-> 0], "noheader", 0)
         ELSE FinallyBarOffset(
                 _gen_wfedrift_coeff(
                     [w EXCEPT !.inst.cfg.options["bar_offset"] =
                          IF w.inst.psf_coeff_header.BAROFF = Absent THEN NoneNum
                          ELSE w.inst.psf_coeff_header.BAROFF],
                     a, failAt),
                 OptGet(w.inst.cfg.options, "bar_offset", NoneNum))
    ELSE _gen_wfedrift_coeff(w, a, failAt)

----------------------------------------------------------------------------
(* gen_wfemask_coeff: the sweep of gen_psf_coeff over mask shifts.         *)

RECURSIVE Reverse(_)
Reverse(s) == IF s = <<>> THEN <<>> ELSE Append(Reverse(Tail(s)), s[1])

Negate(s) == [i \in 1..Len(s) |-> 0 - s[i]]

Scale(s, permille) == [i \in 1..Len(s) |-> (s[i] * permille) \div 1000]

Abs(v) == IF v < 0 THEN 0 - v ELSE v

\* self.aperturename of the coronagraphic configurations
ApertureName(c) ==
    CASE c.image_mask = "MASK335R" -> "NRCA5_MASK335R"
      [] c.image_mask = "MASKLWB" -> "NRCA5_MASKLWB"
      [] c.image_mask = "FQPM1140" -> "MIRIM_MASK1140"
      [] c.image_mask = "LYOT2300" -> "MIRIM_MASKLYOT"
      [] OTHER -> "FULL"

\* The x and y mask shifts of the first pass, ascending, and the radius
\* within which a point is a small-grid-dither point
MaskOffsets(c) ==
    IF c.name = "MIRI"
    THEN LET xy == IF HasFQPM(c.image_mask)
                   THEN <<0, 50, 100, 800, 1000, 2000, 5000, 10000, 100000, 120000>>
                   ELSE <<0, 100, 1000, 3600, 5000, 10000, 21000, 100000, 150000>>
             xy_offsets == Reverse(Negate(xy))
         IN [x |-> xy_offsets, y |-> xy_offsets, sgd |-> 100, bar |-> FALSE]
    ELSE IF LastChar(c.image_mask) = "R"
    THEN LET xy_inner == <<0, 150, 200, 500, 1000>>
             xy_mid == Scale(<<6000, 12000, 20000, 25000>>,
                             IF c.image_mask = "MASK210R" THEN 488
                             ELSE IF c.image_mask = "MASK335R" THEN 779 ELSE 1000)
             xy_outer == <<50000, 80000>>
             xy_offsets == Reverse(Negate(xy_inner \o xy_mid \o xy_outer))
         IN [x |-> xy_offsets, y |-> xy_offsets, sgd |-> 200, bar |-> FALSE]
    ELSE LET y_inner == <<0, 100, 200, 500, 1000>>
             y_mid == Scale(<<6000, 12000, 20000, 25000>>,
                            IF c.image_mask = "MASKSWB" THEN 488 ELSE 1000)
             y_outer == <<50000, 80000>>
             x0 == <<0 - 80000, 0 - 60000, 0 - 40000, 0 - 20000, 0,
                     20000, 40000, 60000, 80000>>
         IN [x |-> Negate(Reverse(x0)),
             y |-> Negate(Reverse(y_inner \o y_mid \o y_outer)),
             sgd |-> 200, bar |-> TRUE]

\* xy_list: the meshgrid flattened row by row (y outer, x inner)
MeshList(xs, ys) ==
    [k \in 1..(Len(xs) * Len(ys)) |->
        <<xs[((k - 1) % Len(xs)) + 1], ys[((k - 1) \div Len(xs)) + 1]>>]

\* ind_sgd of the first pass
IsSgdFirst(g, pt) ==
    IF g.bar THEN (Abs(pt[2]) <= g.sgd) /\ (pt[2] # 0)
    ELSE (Abs(pt[1]) <= g.sgd) /\ (Abs(pt[2]) <= g.sgd) /\ ~((pt[1] = 0) /\ (pt[2] = 0))

\* The grids after the symmetric copies: xoff_all[0] and yoff_all[:,0]
AllX(g) == IF g.bar THEN g.x ELSE g.x \o Reverse(Negate(SubSeq(g.x, 1, Len(g.x) - 1)))
AllY(g) == g.y \o Reverse(Negate(SubSeq(g.y, 1, Len(g.y) - 1)))

\* ind_sgd of the second pass, over the combined grid
IsSgdSecond(g, pt) ==
    IF g.bar THEN (Abs(pt[1]) <= 200) /\ (pt[2] # 0)
    ELSE (Abs(pt[1]) <= 200) /\ (Abs(pt[2]) <= 200) /\ ~((pt[1] = 0) /\ (pt[2] = 0))

\* xoff_all[ind_sgd], yoff_all[ind_sgd]: the combined grid is laid out in
\* blocks (the first quadrant, then its copies), read row by row
SgdList(g) ==
    SelectSeq(MeshList(AllX(g), AllY(g)), LAMBDA pt : IsSgdSecond(g, pt))

\* What one turn of a sweep loop yields from its call of gen_psf_coeff
CubeResult(r) ==
    IF r.exc # "none" THEN Raise(r.w, r.exc, "sweep", r.nsim)
    ELSE Ok(r.w, [kind |-> "cubes", cf |-> << r.ret.data >>], "sweep", r.nsim)

SgdResult(r, pt) ==
    IF r.exc # "none" THEN Raise(r.w, r.exc, "sweep", r.nsim)
    ELSE Ok(r.w, [kind |-> "cubes",
                  cf |-> << [x |-> pt[1], y |-> pt[2], cf |-> r.ret.data] >>],
            "sweep", r.nsim)

\* self.options['coron_shift_x'], ['coron_shift_y'] = the point of the turn
ShiftMask(w, pt) ==
    [w EXCEPT !.inst.cfg.options["coron_shift_x"] = pt[1],
              !.inst.cfg.options["coron_shift_y"] = pt[2]]

\* One turn of the first-pass loop: the shift is set, then zeros stand in
\* at a dither point (np.zeros(self.psf_coeff.shape)) and a cube is
\* generated anywhere else
MaskFirstStep(w, g, xy_list, i, failAt) ==
    IF IsSgdFirst(g, xy_list[i])
    THEN IF w.inst.psf_coeff.kind = "None"
         THEN Raise(ShiftMask(w, xy_list[i]), "AttributeError", "sweep", 0)
         ELSE Ok(ShiftMask(w, xy_list[i]),
                 [kind |-> "cubes",
                  cf |-> << [kind |-> "zeros", shape |-> CubeShape(w.inst.psf_coeff)] >>],
                 "sweep", 0)
    ELSE CubeResult(gen_psf_coeff(ShiftMask(w, xy_list[i]), SweepArgs(0), failAt = i))

\* One turn of the second-pass loop: a cube at a dither point
MaskSecondStep(w, g, sgd_list, i, failAt) ==
    SgdResult(gen_psf_coeff(ShiftMask(w, sgd_list[i]), SweepArgs(0), failAt = i),
              sgd_list[i])

\* Two stretches of a loop, one after the other: the cubes in loop order
JoinLoop(l, r) ==
    IF r.exc # "none" THEN Raise(r.w, r.exc, "sweep", l.nsim + r.nsim)
    ELSE Ok(r.w, [kind |-> "cubes", cf |-> l.ret.cf \o r.ret.cf], "sweep",
            l.nsim + r.nsim)

\* The turns lo..hi of a loop in order, stopping at the first raise
RECURSIVE MaskLoop(_, _, _, _, _, _, _)
RECURSIVE MaskLoopRest(_, _, _, _, _, _, _)
MaskLoop(first, w, g, list, lo, hi, failAt) ==
    IF lo > hi THEN Ok(w, [kind |-> "cubes", cf |-> << >>], "sweep", 0)
    ELSE IF lo = hi
    THEN (IF first THEN MaskFirstStep(w, g, list, lo, failAt)
          ELSE MaskSecondStep(w, g, list, lo, failAt))
    ELSE MaskLoopRest(first, MaskLoop(first, w, g, list, lo, (lo + hi) \div 2, failAt),
                      g, list, ((lo + hi) \div 2) + 1, hi, failAt)

MaskLoopRest(first, l, g, list, lo, hi, failAt) ==
    IF l.exc # "none" THEN l
    ELSE JoinLoop(l, MaskLoop(first, l.w, g, list, lo, hi, failAt))

MaskFirstPass(w, g, xy_list, failAt) ==
    MaskLoop(TRUE, w, g, xy_list, 1, Len(xy_list), failAt)

MaskSecondPass(w, g, sgd_list, failAt) ==
    MaskLoop(FALSE, w, g, sgd_list, 1, Len(sgd_list), failAt)

RestoreMaskKeepsFov(w, saved) ==
    IF w.inst.cfg.name = "NIRCam"
    THEN [w EXCEPT !.inst.cfg.options["coron_shift_x"] = saved.coron_shift_x,
                   !.inst.cfg.options["coron_shift_y"] = saved.coron_shift_y,
                   !.inst.cfg.options["nd_squares"] = saved.nd_squares,
                   !.inst.cfg.options["bar_offset"] = saved.bar_offset]
    ELSE [w EXCEPT !.inst.cfg.options["coron_shift_x"] = saved.coron_shift_x,
                   !.inst.cfg.options["coron_shift_y"] = saved.coron_shift_y]

\* "Return to previous values" at the end of _gen_wfemask_coeff
RestoreMask(w, saved) ==
    IF w.inst.cfg.name = "NIRCam"
    THEN [w EXCEPT !.inst.cfg.options["coron_shift_x"] = saved.coron_shift_x,
                   !.inst.cfg.options["coron_shift_y"] = saved.coron_shift_y,
                   !.inst.cfg.fov_pix = saved.fov_pix,
                   !.inst.cfg.options["nd_squares"] = saved.nd_squares,
                   !.inst.cfg.options["bar_offset"] = saved.bar_offset]
    ELSE [w EXCEPT !.inst.cfg.options["coron_shift_x"] = saved.coron_shift_x,
                   !.inst.cfg.options["coron_shift_y"] = saved.coron_shift_y,
                   !.inst.cfg.fov_pix = saved.fov_pix]

\* The cache-hit branch of _gen_wfemask_coeff: four arrays are read
LoadWfeMask(w, a, out) ==
    IF a.return_results
    THEN Ok(w, [kind |-> "wfemask", n |-> 4, cf_resid_all |-> out.arr_0,
                xvals |-> out.arr_1, yvals |-> out.arr_2, apname |-> out.arr_3],
            "hit", 0)
    ELSE Ok([w EXCEPT !.inst.mod.si_mask = out.arr_0,
                      !.inst.mod.si_mask_xgrid = out.arr_1,
                      !.inst.mod.si_mask_ygrid = out.arr_2,
                      !.inst.mod.si_mask_apname = out.arr_3],
            NoneObj, "hit", 0)

\* The residuals over the combined grid: the first-pass cubes, copied by
\* symmetry, with the second-pass cubes at their points, all minus the last
\* first-pass cube (coeff0)
MaskResiduals(g, cf_all, cf_sgd) ==
    [kind |-> "resid", coeff0 |-> cf_all[Len(cf_all)], cf_all |-> cf_all,
     cf_sgd |-> cf_sgd, bar |-> g.bar]

GridVals(v) == [kind |-> "grid", v |-> v]

\* The end of _gen_wfemask_coeff: save, then return or store
FinishWfeMask(w, a, cf_resid_all, xvals, yvals, apname, outname, nsim) ==
    IF a.return_results
    THEN Ok([w EXCEPT !.disk = IF a.save
                               THEN WriteFile(@, outname, [arr_0 |-> cf_resid_all,
                                        arr_1 |-> xvals, arr_2 |-> yvals, arr_3 |-> apname])
                               ELSE @],
            [kind |-> "wfemask", n |-> 3, cf_resid_all |-> cf_resid_all,
             xvals |-> xvals, yvals |-> yvals, apname |-> NoneVal],
            "compute", nsim)
    ELSE Ok([w EXCEPT !.disk = IF a.save
                               THEN WriteFile(@, outname, [arr_0 |-> cf_resid_all,
                                        arr_1 |-> xvals, arr_2 |-> yvals, arr_3 |-> apname])
                               ELSE @,
                      !.inst.mod.si_mask = cf_resid_all,
                      !.inst.mod.si_mask_xgrid = xvals,
                      !.inst.mod.si_mask_ygrid = yvals,
                      !.inst.mod.si_mask_apname = apname],
            NoneObj, "compute", nsim)

\* After the second pass: the level and the saved values are put back
AfterSecondPass(log_prev, cf_all, nsim1, p2, g, saved, a, outname, apname) ==
    IF p2.exc # "none" THEN Raise(p2.w, p2.exc, "compute", nsim1 + p2.nsim)
    ELSE FinishWfeMask(RestoreMask(setup_logging(p2.w, log_prev), saved), a,
                       MaskResiduals(g, cf_all, p2.ret.cf),
                       GridVals(AllX(g)), GridVals(AllY(g)), apname, outname,
                       nsim1 + p2.nsim)

\* After the first pass: the raw cubes are returned with the saved values
\* put back, or the dither points are swept.  np.array(cf_all) raises when
\* a placeholder has another shape than the cubes: in the return statement
\* of the raw branch, or in the subtraction of coeff0, where nothing but the
\* level has been put back.
AfterFirstPass(log_prev, p1, xy_list, g, saved, a, failAt, outname, apname) ==
    IF p1.exc # "none" THEN Raise(p1.w, p1.exc, "compute", p1.nsim)
    ELSE IF RaggedCubes(p1.ret.cf)
    THEN Raise(IF a.return_raw THEN RestoreMask(setup_logging(p1.w, log_prev), saved)
               ELSE setup_logging(p1.w, log_prev),
               "ValueError", "shapes", p1.nsim)
    ELSE IF a.return_raw
    THEN Ok(RestoreMask(setup_logging(p1.w, log_prev), saved),
            [kind |-> "raw", cf_all |-> p1.ret.cf, xy_list |-> xy_list], "raw", p1.nsim)
    ELSE AfterSecondPass(log_prev, p1.ret.cf, p1.nsim,
                         MaskSecondPass(setup_logging(p1.w, "WARN"), g, SgdList(g),
                                        failAt - Len(xy_list)),
                         g, saved, a, outname, apname)

\* The two passes over the grid g of mask shifts
MaskPasses(w, g, xy_list, saved, a, failAt, outname, apname) ==
    AfterFirstPass(w.log, MaskFirstPass(setup_logging(w, "WARN"), g, xy_list, failAt),
                   xy_list, g, saved, a, failAt, outname, apname)

\* _gen_wfemask_coeff after the cache lookup: the values to return to are
\* read (a missing shift as 0, a missing nd_squares as True), the grid is
\* chosen, nd_squares is turned off for NIRCam
SweepWfeMask(w, a, failAt, fov_pix_orig, bar_offset_orig, outname) ==
    IF (w.inst.cfg.name = "MIRI") /\ (w.inst.cfg.image_mask = NoneVal)
    THEN Raise(w, "TypeError", "compute", 0)
    ELSE IF (w.inst.cfg.name = "MIRI") /\ ~HasFQPM(w.inst.cfg.image_mask)
            /\ ~HasLYOT(w.inst.cfg.image_mask)
    THEN Raise(w, "NotImplementedError", "compute", 0)
    ELSE MaskPasses([w EXCEPT !.inst.cfg.options["nd_squares"] =
                                 IF w.inst.cfg.name = "NIRCam" THEN 0 ELSE @],
                    MaskOffsets(w.inst.cfg),
                    MeshList(MaskOffsets(w.inst.cfg).x, MaskOffsets(w.inst.cfg).y),
                    [coron_shift_x |-> OptGet(w.inst.cfg.options, "coron_shift_x", 0),
                     coron_shift_y |-> OptGet(w.inst.cfg.options, "coron_shift_y", 0),
                     fov_pix |-> fov_pix_orig,
                     nd_squares |-> OptGet(w.inst.cfg.options, "nd_squares", 1),
                     bar_offset |-> bar_offset_orig],
                    a, failAt, outname, ApertureName(w.inst.cfg))

\* _gen_wfemask_coeff once fov_pix is capped, bar_offset is 0 and the file
\* is named: the cache lookup, which puts fov_pix and bar_offset back
WfeMaskAt(w, outname, fov_pix_orig, bar_offset_orig, a, failAt) ==
    IF (~a.force) /\ FileExists(w.disk, outname)
    THEN LoadWfeMask([w EXCEPT !.inst.cfg.fov_pix = fov_pix_orig,
                               !.inst.cfg.options["bar_offset"] =
                                   IF w.inst.cfg.name = "NIRCam" THEN bar_offset_orig
                                   ELSE @],
                     a, w.disk.files[outname])
    ELSE SweepWfeMask(w, a, failAt, fov_pix_orig, bar_offset_orig, outname)

WfeMaskNamed(d, fov_pix_orig, bar_offset_orig, a, failAt) ==
    WfeMaskAt(d.w, OutFile(d.ret, save_name(d.w.inst.cfg), "_wfemask.npz"),
              fov_pix_orig, bar_offset_orig, a, failAt)

\* _gen_wfemask_coeff (gen_wfemask_coeff of both classes calls through)
_gen_wfemask_coeff(w, a, failAt) ==
    IF ~is_coron(w.inst.cfg) THEN Ok(w, NoneObj, "notcoron", 0)
    ELSE WfeMaskNamed(
            _gen_save_dir([w EXCEPT !.inst.cfg.fov_pix = FovCap(w.inst.cfg, _fovmax_wfefield),
                                    !.inst.cfg.options["bar_offset"] =
                                        IF w.inst.cfg.name = "NIRCam" THEN 0 ELSE @]),
            w.inst.cfg.fov_pix, OptGet(w.inst.cfg.options, "bar_offset", NoneNum),
            a, failAt)

gen_wfemask_coeff(w, a, failAt) == _gen_wfemask_coeff(w, a, failAt)

----------------------------------------------------------------------------
(* gen_wfefield_coeff: the sweep of gen_psf_coeff over detector positions. *)

\* The 'sci' positions of the sweep: the measured field points of the
\* instrument's table that lie on the detector, then the four corners of
\* the footprint
FieldPoints(c) ==
    IF c.name = "NIRCam"
    THEN << <<300, 1700>>, <<1500, 400>>,
            <<0 - 20, 0 - 20>>, <<2068, 0 - 20>>, <<0 - 20, 2068>>, <<2068, 2068>> >>
    ELSE << <<200, 900>>, <<700, 300>>,
            <<0 - 10, 0 - 10>>, <<1042, 0 - 10>>, <<0 - 10, 1034>>, <<1042, 1034>> >>

\* The detector_position setter: x, y = map(float, position)
SetDetectorPosition(w, position) ==
    [w EXCEPT !.inst.cfg.detector_position = <<position[1], position[2]>>]

\* for xsci, ysci in zip(xsci_all, ysci_all): the position is set, a cube is
\* generated.  The call number failAt of the sweep is the one whose workers
\* fail.
RECURSIVE FieldSweep(_, _, _, _, _, _)
RECURSIVE FieldSweepNext(_, _, _, _, _, _)
FieldSweep(w, pts, i, failAt, cf_fields, nsim) ==
    IF i > Len(pts) THEN Ok(w, [kind |-> "cubes", cf |-> cf_fields], "sweep", nsim)
    ELSE FieldSweepNext(gen_psf_coeff(SetDetectorPosition(w, pts[i]), SweepArgs(0),
                                      failAt = i),
                        pts, i, failAt, cf_fields, nsim)

FieldSweepNext(r, pts, i, failAt, cf_fields, nsim) ==
    IF r.exc # "none" THEN Raise(r.w, r.exc, "sweep", nsim + r.nsim)
    ELSE FieldSweep(r.w, pts, i + 1, failAt, Append(cf_fields, r.ret.data),
                    nsim + r.nsim)

\* The cache-hit branch of _gen_wfefield_coeff: four arrays are read
LoadWfeField(w, a, out) ==
    IF a.return_results
    THEN Ok(w, [kind |-> "wfefield", n |-> 4, res |-> out.arr_0,
                v2grid |-> out.arr_1, v3grid |-> out.arr_2, apname |-> out.arr_3],
            "hit", 0)
    ELSE Ok([w EXCEPT !.inst.mod.si_field = out.arr_0,
                      !.inst.mod.si_field_v2grid = out.arr_1,
                      !.inst.mod.si_field_v3grid = out.arr_2,
                      !.inst.mod.si_field_apname = out.arr_3],
            NoneObj, "hit", 0)

\* make_coeff_resid_grid of the residuals cf_fields - coeff0
FieldResiduals(cf_fields, coeff0, pts) ==
    [kind |-> "fieldresid", coeff0 |-> coeff0, cf |-> cf_fields, at |-> pts]

\* np.linspace(min, max, num=nv23)
FieldGrid(c, axis) == [kind |-> "linspace", inst |-> c.name, axis |-> axis, num |-> 8]

\* The end of _gen_wfefield_coeff: save, then return or store
FinishWfeField(w, a, res, v2grid, v3grid, apname, outname, nsim) ==
    IF a.return_results
    THEN Ok([w EXCEPT !.disk = IF a.save
                               THEN WriteFile(@, outname, [arr_0 |-> res,
                                        arr_1 |-> v2grid, arr_2 |-> v3grid, arr_3 |-> apname])
                               ELSE @],
            [kind |-> "wfefield", n |-> 4, res |-> res,
             v2grid |-> v2grid, v3grid |-> v3grid, apname |-> apname],
            "compute", nsim)
    ELSE Ok([w EXCEPT !.disk = IF a.save
                               THEN WriteFile(@, outname, [arr_0 |-> res,
                                        arr_1 |-> v2grid, arr_2 |-> v3grid, arr_3 |-> apname])
                               ELSE @,
                      !.inst.mod.si_field = res,
                      !.inst.mod.si_field_v2grid = v2grid,
                      !.inst.mod.si_field_v3grid = v3grid,
                      !.inst.mod.si_field_apname = apname],
            NoneObj, "compute", nsim)

ResetFieldKeepsPosition(w, log_prev, x0y0, fov_pix_orig) ==
    setup_logging([w EXCEPT !.inst.cfg.fov_pix = fov_pix_orig], log_prev)

\* "Reset to initial values"
ResetField(w, log_prev, x0y0, fov_pix_orig) ==
    setup_logging([SetDetectorPosition(w, x0y0) EXCEPT !.inst.cfg.fov_pix = fov_pix_orig],
                  log_prev)

\* After the reset: the raw cubes, or the residuals against coeff0 (np.array
\* minus None when there is no cube, minus a cube of another shape when
\* psf_coeff was not made with the settings of the sweep), gridded, saved,
\* returned or stored
EndWfeField(w, a, cf_fields, coeff0, pts, apname, outname, nsim) ==
    IF a.return_raw
    THEN Ok(w, [kind |-> "raw", cf_fields |-> cf_fields, at |-> pts], "raw", nsim)
    ELSE IF coeff0.kind = "None" THEN Raise(w, "TypeError", "compute", nsim)
    ELSE IF ShapesDiffer(cf_fields, coeff0) THEN Raise(w, "ValueError", "shapes", nsim)
    ELSE FinishWfeField(w, a, FieldResiduals(cf_fields, coeff0, pts),
                        FieldGrid(w.inst.cfg, "v2"), FieldGrid(w.inst.cfg, "v3"),
                        apname, outname, nsim)

AfterFieldSweep(log_prev, s, a, x0y0, coeff0, pts, fov_pix_orig, apname, outname) ==
    IF s.exc # "none" THEN Raise(s.w, s.exc, "compute", s.nsim)
    ELSE EndWfeField(ResetField(s.w, log_prev, x0y0, fov_pix_orig), a, s.ret.cf,
                     coeff0, pts, apname, outname, s.nsim)

\* _gen_wfefield_coeff after the cache lookup
SweepWfeField(w, a, failAt, fov_pix_orig, outname) ==
    IF (w.inst.cfg.name = "NIRCam") /\ is_lyot(w.inst.cfg) /\ (w.inst.cfg.module = "B")
    THEN Raise(w, "NotImplementedError", "compute", 0)
    ELSE AfterFieldSweep(w.log,
                         FieldSweep(setup_logging(w, "WARN"), FieldPoints(w.inst.cfg), 1,
                                    failAt, << >>, 0),
                         a, w.inst.cfg.detector_position, w.inst.psf_coeff,
                         FieldPoints(w.inst.cfg), fov_pix_orig,
                         ApertureName(w.inst.cfg), outname)

\* _gen_wfefield_coeff once fov_pix is capped and the file is named: the
\* cache lookup, which puts fov_pix back
WfeFieldAt(w, outname, fov_pix_orig, a, failAt) ==
    IF (~a.force) /\ FileExists(w.disk, outname)
    THEN LoadWfeField([w EXCEPT !.inst.cfg.fov_pix = fov_pix_orig], a,
                      w.disk.files[outname])
    ELSE SweepWfeField(w, a, failAt, fov_pix_orig, outname)

WfeFieldNamed(d, fov_pix_orig, a, failAt) ==
    WfeFieldAt(d.w, OutFile(d.ret, save_name(d.w.inst.cfg), "_wfefields.npz"),
               fov_pix_orig, a, failAt)

\* _gen_wfefield_coeff (gen_wfefield_coeff of both classes calls through)
_gen_wfefield_coeff(w, a, failAt) ==
    IF (w.inst.cfg.include_si_wfe = FALSE) \/ is_coron(w.inst.cfg)
    THEN Ok(w, NoneObj, "notapplicable", 0)
    ELSE WfeFieldNamed(
            _gen_save_dir([w EXCEPT !.inst.cfg.fov_pix = FovCap(w.inst.cfg, _fovmax_wfefield)]),
            w.inst.cfg.fov_pix, a, failAt)

gen_wfefield_coeff(w, a, failAt) == _gen_wfefield_coeff(w, a, failAt)

----------------------------------------------------------------------------
(* calc_psf_from_coeff.  coord_vals is None or a list of positions, given   *)
(* as the mask offsets (1e-4 arcsec) the aperture conversion yields.       *)

Zero == [kind |-> "zero"]

DriftAsGiven(wfe_drift) == wfe_drift

\* if wfe_drift is None: wfe_drift = 0
DriftOrZero(wfe_drift) == IF wfe_drift = NoneNum THEN 0 ELSE wfe_drift

KnownFrame(coord_frame) == coord_frame \in {"sci", "det", "tel", "idl"}

\* _coeff_mod_wfe_field: reads the keys of _psf_coeff_mod first, the
\* aperture name under the key 'si_feild_apname'
_coeff_mod_wfe_field(w, coord_vals, coord_frame) ==
    IF "si_feild_apname" \notin DOMAIN w.inst.mod
    THEN [exc |-> "KeyError", cf_mod |-> Zero, nfield |-> NoneNum]
    ELSE IF coord_vals.kind = "None"
    THEN [exc |-> "none", cf_mod |-> Zero, nfield |-> NoneNum]
    ELSE IF w.inst.mod.si_field.kind = "None"
    THEN [exc |-> "none", cf_mod |-> Zero, nfield |-> NoneNum]
    ELSE IF KnownFrame(coord_frame)
    THEN [exc |-> "none",
          cf_mod |-> [kind |-> "interp", model |-> "si_field", at |-> coord_vals.pts],
          nfield |-> Len(coord_vals.pts)]
    ELSE [exc |-> "none", cf_mod |-> Zero, nfield |-> NoneNum]

\* _coeff_mod_wfe_mask
_coeff_mod_wfe_mask(w, coord_vals, coord_frame) ==
    LET c == w.inst.cfg
        cf_fit == w.inst.mod.si_mask
        apname == w.inst.mod.si_mask_apname
        Interp(pts) == [exc |-> "none",
                        cf_mod |-> [kind |-> "interp", model |-> "si_mask", at |-> pts],
                        nfield |-> Len(pts)]
        Nothing == [exc |-> "none", cf_mod |-> Zero, nfield |-> NoneNum]
    IN IF (coord_vals.kind # "None") /\ (cf_fit.kind = "None") THEN Nothing
       ELSE IF (coord_vals.kind = "None") /\ (c.name = "NIRCam")
               /\ (LastChar(c.image_mask) = "B")
       THEN LET bar_offset == get_bar_offset(c)
            IN IF (bar_offset # 0) /\ (cf_fit.kind = "None") THEN Nothing
               ELSE IF apname = NoneVal
               THEN [exc |-> "AttributeError", cf_mod |-> Zero, nfield |-> NoneNum]
               ELSE Interp(<< <<0 - bar_offset, 0>> >>)
       ELSE IF coord_vals.kind # "None"
       THEN IF KnownFrame(coord_frame) THEN Interp(coord_vals.pts) ELSE Nothing
       ELSE Nothing

\* _wfe_drift_key: 'wfe_drift' within 0.1 arcsec of the mask centre, else
\* 'wfe_drift_off'; one key when there are no positions
_wfe_drift_key(w, coord_vals, coord_frame) ==
    IF coord_vals.kind = "None" THEN <<"wfe_drift">>
    ELSE IF KnownFrame(coord_frame)
    THEN [i \in 1..Len(coord_vals.pts) |->
            LET xoff == coord_vals.pts[i][1]
                yoff == coord_vals.pts[i][2]
            IN IF xoff * xoff + yoff * yoff < 1000 * 1000
               THEN "wfe_drift" ELSE "wfe_drift_off"]
    ELSE <<"wfe_drift">>

\* _coeff_mod_wfe_drift
_coeff_mod_wfe_drift(w, wfe_drift, key) ==
    IF wfe_drift = 0 THEN Zero
    ELSE IF w.inst.mod[key].kind = "None" THEN Zero
    ELSE [kind |-> "driftmod", key |-> key, at |-> wfe_drift]

\* np.unique(wfe_drift_keys)
UniqueKeys(wfe_drift_keys) == {wfe_drift_keys[i] : i \in 1..Len(wfe_drift_keys)}

\* The drift correction and the image: with more than one key the
\* correction is added per position, which the number 0 does not take
CalcDrift(w, a, wfe_drift, f, m, wfe_drift_keys) ==
    IF (Cardinality(UniqueKeys(wfe_drift_keys)) > 1)
       /\ (f.cf_mod.kind = "zero") /\ (m.cf_mod.kind = "zero")
    THEN Raise(w, "TypeError", "drift", 0)
    ELSE Ok(w, [kind |-> "psf",
                nfield |-> IF m.nfield # NoneNum THEN m.nfield
                           ELSE IF f.nfield # NoneNum THEN f.nfield ELSE 1,
                field_mod |-> f.cf_mod, mask_mod |-> m.cf_mod,
                drift_mod |-> [i \in 1..Len(wfe_drift_keys) |->
                                  _coeff_mod_wfe_drift(w, wfe_drift, wfe_drift_keys[i])],
                WFEDRIFT |-> wfe_drift, sp |-> a.sp],
            "psf", 0)

\* After the mask correction: the assertion on the drift
CalcAfterMask(w, a, wfe_drift, f, m) ==
    IF m.exc # "none" THEN Raise(w, m.exc, "mask", 0)
    ELSE IF ~(wfe_drift >= 0) THEN Raise(w, "AssertionError", "assert", 0)
    ELSE CalcDrift(w, a, wfe_drift, f, m,
                   _wfe_drift_key(w, a.coord_vals, a.coord_frame))

\* After the field correction: without an image mask nfield_mask is read
\* though it was never assigned
CalcAfterField(w, a, wfe_drift, f) ==
    IF f.exc # "none" THEN Raise(w, f.exc, "field", 0)
    ELSE IF w.inst.cfg.image_mask = NoneVal THEN Raise(w, "UnboundLocalError", "mask", 0)
    ELSE CalcAfterMask(w, a, wfe_drift, f,
                       _coeff_mod_wfe_mask(w, a.coord_vals, a.coord_frame))

\* _calc_psf_from_coeff once a cube exists: the corrections, then the image
CalcWithCoeff(w, a) ==
    CalcAfterField(w, a, DriftOrZero(a.wfe_drift),
                   IF w.inst.cfg.image_mask = NoneVal
                   THEN _coeff_mod_wfe_field(w, a.coord_vals, a.coord_frame)
                   ELSE [exc |-> "none", cf_mod |-> Zero, nfield |-> NoneNum])

CalcWithoutNoneCheck(w, a) == CalcWithCoeff(w, a)

\* _calc_psf_from_coeff (calc_psf_from_coeff of both classes calls through)
_calc_psf_from_coeff(w, a) ==
    IF w.inst.psf_coeff.kind = "None" THEN Ok(w, NoneObj, "nocoeff", 0)
    ELSE CalcWithCoeff(w, a)

calc_psf_from_coeff(w, a) == _calc_psf_from_coeff(w, a)

----------------------------------------------------------------------------
(* Construction.                                                           *)

OptionKeys == {"jitter", "jitter_sigma", "source_offset_r", "offset_theta",
               "coron_shift_x", "coron_shift_y", "bar_offset", "nd_squares"}

\* _init_inst, after the library constructor: the attributes and options of
\* a new instrument object
_init_inst(name, filter, pupil_mask, image_mask, fov_pix, oversample_) ==
    LET masks == [name |-> name, pupil_mask |-> pupil_mask, image_mask |-> image_mask]
        opd_name == IF name = "NIRCam" THEN "OPD_RevW_ote_for_NIRCam_predicted.fits"
                    ELSE "OPD_RevW_ote_for_MIRI_predicted.fits"
        _opd_default == [kind |-> "tuple", file |-> opd_name, slice |-> 0]
        options == [k \in OptionKeys |->
                      CASE k = "jitter" -> (IF is_coron(masks) THEN NoneVal ELSE "gaussian")
                        [] k = "jitter_sigma" -> 30
                        [] k \in {"coron_shift_x", "coron_shift_y"} ->
                               (IF image_mask # NoneVal THEN 0 ELSE Absent)
                        [] OTHER -> Absent]
    IN [cfg |-> [name |-> name,
                 module |-> IF name = "NIRCam" THEN "A" ELSE "",
                 filter |-> filter, pupil_mask |-> pupil_mask, image_mask |-> image_mask,
                 include_si_wfe |-> IF name = "MIRI" THEN ~is_coron(masks) ELSE TRUE,
                 fov_pix |-> IF fov_pix = NoneNum
                             THEN (IF is_coron(masks) THEN 128 ELSE 129) ELSE fov_pix,
                 oversample |-> oversample_,
                 npsf |-> NoneNum, ndeg |-> NoneNum,
                 use_legendre |-> TRUE, quick |-> NoneVal,
                 opd_default |-> _opd_default, pupilopd |-> _opd_default,
                 pupil |-> [kind |-> "file", file |-> "jwst_pupil_RevW_npix1024.fits.gz"],
                 detector_position |-> <<1024, 1024>>,
                 save_dir |-> NoneVal, save_name |-> NoneObj,
                 options |-> options],
        psf_coeff |-> NoneObj,
        psf_coeff_header |-> NoneObj,
        mod |-> [wfe_drift |-> NoneObj, wfe_drift_off |-> NoneObj,
                 wfe_drift_lxmap |-> NoneObj,
                 si_field |-> NoneObj, si_field_v2grid |-> NoneObj,
                 si_field_v3grid |-> NoneObj, si_field_apname |-> NoneVal,
                 si_mask |-> NoneObj, si_mask_xgrid |-> NoneObj,
                 si_mask_ygrid |-> NoneObj, si_mask_apname |-> NoneVal]]

\* The instruments constructed: imaging and coronagraphic, of both classes,
\* with the fov_pix argument of each (None is the default size)
Instruments ==
    {[name |-> "NIRCam", filter |-> "F335M", pupil_mask |-> NoneVal,
      image_mask |-> NoneVal, fov_pix |-> NoneNum],
     [name |-> "NIRCam", filter |-> "F335M", pupil_mask |-> "CIRCLYOT",
      image_mask |-> "MASK335R", fov_pix |-> 300],
     [name |-> "NIRCam", filter |-> "F335M", pupil_mask |-> "WEDGELYOT",
      image_mask |-> "MASKLWB", fov_pix |-> NoneNum],
     [name |-> "MIRI", filter |-> "F1140C", pupil_mask |-> NoneVal,
      image_mask |-> NoneVal, fov_pix |-> 300],
     [name |-> "MIRI", filter |-> "F1140C", pupil_mask |-> "MASKFQPM",
      image_mask |-> "FQPM1140", fov_pix |-> 301]}

World == [inst |-> inst, disk |-> disk, log |-> logging_level]

NoCall == [op |-> "init", a |-> NoneObj, exc |-> "none", path |-> "", nsim |-> 0]

Init ==
    /\ \E i \in Instruments :
          inst = _init_inst(i.name, i.filter, i.pupil_mask, i.image_mask, i.fov_pix, NoneNum)
    /\ disk = [files |-> << >>, dirs |-> {}]
    /\ logging_level = "INFO"
    /\ call = NoCall
    /\ ncalls = 0

----------------------------------------------------------------------------
(* The operations.  A call runs to its return or to its raise; what it     *)
(* leaves behind is the next state.  call records the last operation, its  *)
(* arguments and how it ended.                                             *)

Finish(op, a, r) ==
    /\ inst' = r.w.inst
    /\ disk' = r.w.disk
    /\ logging_level' = r.w.log
    /\ call' = [op |-> op, a |-> a, exc |-> r.exc, path |-> r.path, nsim |-> r.nsim]
    /\ ncalls' = ncalls + 1

\* Every argument combination of gen_psf_coeff, with and without a failing
\* worker
GenArgs ==
    [wfe_drift : {0, 5}, force : BOOLEAN, save : BOOLEAN, return_results : BOOLEAN,
     bar_offset : {0}, fail : BOOLEAN]

GenArg(wfe_drift, force, save, return_results, fail) ==
    [wfe_drift |-> wfe_drift, force |-> force, save |-> save,
     return_results |-> return_results, bar_offset |-> 0, fail |-> fail]

\* The calls of gen_psf_coeff a behaviour is built from: the default call,
\* a drifted one, a forced one that returns its results, a forced one whose
\* workers fail, a forced one 2 arcsec along the bar
GenCalls ==
    {GenArg(0, FALSE, TRUE, FALSE, FALSE), GenArg(5, FALSE, TRUE, FALSE, FALSE),
     GenArg(0, TRUE, FALSE, TRUE, FALSE), GenArg(0, TRUE, FALSE, FALSE, TRUE),
     [GenArg(0, TRUE, FALSE, FALSE, FALSE) EXCEPT !.bar_offset = 20000]}

GenPsfCoeff ==
    /\ ncalls < MaxCalls
    /\ \E a \in GenCalls : Finish("gen_psf_coeff", a, gen_psf_coeff(World, a, a.fail))

DefaultWfeList == <<0, 1, 2, 5, 10, 20, 40>>

WfeDriftArg(force, save, return_results, return_raw, wfe_list, failAt) ==
    [force |-> force, save |-> save, return_results |-> return_results,
     return_raw |-> return_raw, wfe_list |-> wfe_list, failAt |-> failAt]

\* The calls of gen_wfedrift_coeff: the default call, a raw one, and two
\* whose second and third cube generation fails
WfeDriftCalls ==
    {WfeDriftArg(FALSE, TRUE, FALSE, FALSE, DefaultWfeList, 0),
     WfeDriftArg(TRUE, FALSE, TRUE, TRUE, <<0, 5>>, 0),
     WfeDriftArg(TRUE, FALSE, FALSE, FALSE, <<0, 5>>, 2),
     WfeDriftArg(TRUE, FALSE, TRUE, FALSE, <<0, 5>>, 3)}

GenWfeDriftCoeff ==
    /\ ncalls < MaxCalls
    /\ \E a \in WfeDriftCalls :
          Finish("gen_wfedrift_coeff", a, gen_wfedrift_coeff(World, a, a.failAt))

WfeMaskArg(force, save, return_results, return_raw, failAt) ==
    [force |-> force, save |-> save, return_results |-> return_results,
     return_raw |-> return_raw, failAt |-> failAt]

\* The calls of gen_wfemask_coeff: the default call, a raw one, and one
\* whose first cube generation fails
WfeMaskCalls ==
    {WfeMaskArg(FALSE, TRUE, FALSE, FALSE, 0), WfeMaskArg(TRUE, FALSE, TRUE, TRUE, 0),
     WfeMaskArg(TRUE, FALSE, FALSE, FALSE, 1)}

GenWfeMaskCoeff ==
    /\ ncalls < MaxCalls
    /\ \E a \in WfeMaskCalls :
          Finish("gen_wfemask_coeff", a, gen_wfemask_coeff(World, a, a.failAt))

\* The calls of gen_wfefield_coeff: the default call, a raw one, and one
\* whose second cube generation fails
WfeFieldCalls ==
    {WfeMaskArg(FALSE, TRUE, FALSE, FALSE, 0), WfeMaskArg(TRUE, FALSE, TRUE, TRUE, 0),
     WfeMaskArg(TRUE, FALSE, FALSE, FALSE, 2)}

GenWfeFieldCoeff ==
    /\ ncalls < MaxCalls
    /\ \E a \in WfeFieldCalls :
          Finish("gen_wfefield_coeff", a, gen_wfefield_coeff(World, a, a.failAt))

NoCoord == [kind |-> "None", pts |-> << >>]
OnePoint == [kind |-> "pts", pts |-> << <<500, 0>> >>]
TwoPoints == [kind |-> "pts", pts |-> << <<500, 0>>, <<20000, 10000>> >>]

\* Every argument combination of calc_psf_from_coeff
CalcArgs ==
    [wfe_drift : {NoneNum, 0 - 1, 0, 5}, coord_vals : {NoCoord, OnePoint, TwoPoints},
     coord_frame : {"sci", "xyz"}, sp : {"None", "G2V"}]

CalcArg(wfe_drift, coord_vals, coord_frame) ==
    [wfe_drift |-> wfe_drift, coord_vals |-> coord_vals, coord_frame |-> coord_frame,
     sp |-> "None"]

\* The calls of calc_psf_from_coeff: the default call, a drifted one at a
\* position, and one with a negative drift
CalcCalls ==
    {CalcArg(NoneNum, NoCoord, "tel"), CalcArg(5, OnePoint, "sci"),
     CalcArg(0 - 1, NoCoord, "tel")}

CalcPsfFromCoeff ==
    /\ ncalls < MaxCalls
    /\ \E a \in CalcCalls : Finish("calc_psf_from_coeff", a, calc_psf_from_coeff(World, a))

\* The calls of get_opd_info: the default call, and one with an HDUList
\* that is not converted to a linear model
OpdInfoCalls ==
    {[opd |-> NoneObj, HDUL_to_OTELM |-> TRUE],
     [opd |-> [kind |-> "hdul", origin |-> "custom.fits", slice |-> 0],
      HDUL_to_OTELM |-> FALSE]}

GetOpdInfo ==
    /\ ncalls < MaxCalls
    /\ \E a \in OpdInfoCalls :
          Finish("get_opd_info", a, _get_opd_info(World, a.opd, a.HDUL_to_OTELM))

\* Attribute assignments by the caller between calls
SetAttr ==
    /\ ncalls < MaxCalls
    /\ \E attr \in {"ndeg", "detector_position", "fov_pix"} :
          /\ inst' = IF attr = "ndeg" THEN [inst EXCEPT !.cfg.ndeg = 5]
                     ELSE IF attr = "fov_pix" THEN [inst EXCEPT !.cfg.fov_pix = 300]
                     ELSE [inst EXCEPT !.cfg.detector_position = <<512, 512>>]
          /\ call' = [NoCall EXCEPT !.op = "set", !.path = attr]
          /\ ncalls' = ncalls + 1
    /\ UNCHANGED <<disk, logging_level>>

Next ==
    \/ GenPsfCoeff
    \/ GenWfeDriftCoeff
    \/ GenWfeMaskCoeff
    \/ GenWfeFieldCoeff
    \/ CalcPsfFromCoeff
    \/ GetOpdInfo
    \/ SetAttr

Spec == Init /\ [][Next]_vars

----------------------------------------------------------------------------
(* The worker pools on their own: the simulation of _gen_psf_coeff and the *)
(* convolution of convolve_image, run on every short sequence of worker    *)
(* outcomes.                                                               *)

MaxWorkers == 3

\* nsplit = 4: convolve_image always takes the pooled branch, and sums what
\* the workers returned
convolve_image(outcomes) == PoolAfterImap(ImapUnordered(outcomes, 1, << >>))

RECURSIVE SeqsOf(_, _)
SeqsOf(S, n) ==
    IF n = 0 THEN {<< >>}
    ELSE {Append(q, x) : q \in SeqsOf(S, n - 1), x \in S}

\* _wrap_coeff_for_mp returns an HDU or None, or raises
CoeffWorkerOutcomes ==
    {WorkerOk, WorkerNone, WorkerRaises("ValueError"), WorkerRaises("MemoryError")}

\* _convolve_psfs_for_mp returns an image, or raises
ConvolveWorkerOutcomes ==
    {WorkerOk, WorkerRaises("ValueError"), WorkerRaises("MemoryError")}

PoolCall(op, a, r) ==
    [op |-> op, a |-> a, exc |-> r.exc,
     path |-> IF r.terminated THEN "terminated" ELSE "nopool",
     nsim |-> Len(r.ret)]

RunSimulatePsfs ==
    /\ \E nproc \in {1, 4} : \E outcomes \in SeqsOf(CoeffWorkerOutcomes, MaxWorkers) :
          call' = PoolCall("simulate_psfs", [nproc |-> nproc, outcomes |-> outcomes],
                           SimulatePsfs(nproc, outcomes))
    /\ UNCHANGED <<inst, disk, logging_level, ncalls>>

RunConvolveImage ==
    /\ \E outcomes \in SeqsOf(ConvolveWorkerOutcomes, MaxWorkers) :
          call' = PoolCall("convolve_image", [nproc |-> 4, outcomes |-> outcomes],
                           convolve_image(outcomes))
    /\ UNCHANGED <<inst, disk, logging_level, ncalls>>

PoolNext ==
    \/ RunSimulatePsfs
    \/ RunConvolveImage

PoolSpec == Init /\ [][PoolNext]_vars

----------------------------------------------------------------------------
(* The fit settings on their own: every assignment of npsf, ndeg, quick    *)
(* and use_legendre to an instrument.                                      *)

MaxDegree == 12

\* Values assigned to npsf, in halves: None, negative, below and above 5,
\* whole and fractional
NpsfValues == {NoneNum} \cup (0 - 3 .. 2 * MaxDegree + 3)

NdegValues == {NoneNum} \cup (0 .. MaxDegree)

AttrCall(attr) == [NoCall EXCEPT !.op = "set", !.path = attr]

SetNpsf ==
    /\ \E v \in NpsfValues : inst' = [inst EXCEPT !.cfg.npsf = v]
    /\ call' = AttrCall("npsf")
    /\ UNCHANGED <<disk, logging_level, ncalls>>

SetNdeg ==
    /\ \E v \in NdegValues : inst' = [inst EXCEPT !.cfg.ndeg = v]
    /\ call' = AttrCall("ndeg")
    /\ UNCHANGED <<disk, logging_level, ncalls>>

SetQuick ==
    /\ \E v \in {"True", "False"} : inst' = [inst EXCEPT !.cfg.quick = v]
    /\ call' = AttrCall("quick")
    /\ UNCHANGED <<disk, logging_level, ncalls>>

SetUseLegendre ==
    /\ \E v \in BOOLEAN : inst' = [inst EXCEPT !.cfg.use_legendre = v]
    /\ call' = AttrCall("use_legendre")
    /\ UNCHANGED <<disk, logging_level, ncalls>>

AttrNext ==
    \/ SetNpsf
    \/ SetNdeg
    \/ SetQuick
    \/ SetUseLegendre

AttrSpec == Init /\ [][AttrNext]_vars

----------------------------------------------------------------------------
(* coords: the dither patterns and the pointing offsets.  Angles are whole *)
(* numbers of 0.1 mas, so that a value in mas and the same value in arcsec *)
(* (1e-4 arcsec) are written with the same number.                         *)

\* The literal tables of gen_sgd_offsets, in mas
SgdTableX(sgd_type) ==
    CASE sgd_type = "9circle" -> <<0, 0, 0 - 15, 0 - 20, 0 - 15, 0, 15, 20, 15>>
      [] sgd_type = "5box" -> <<0, 15, 0 - 15, 0 - 15, 15>>
      [] sgd_type = "5diamond" -> <<0, 0, 0, 0, 0>>
      [] sgd_type = "5bar" -> <<0, 0, 0, 0, 0>>
      [] sgd_type = "3bar" -> <<0, 0, 0>>
      [] sgd_type = "5miri" -> <<0, 0 - 10, 10, 10, 0 - 10>>
      [] sgd_type = "9miri" -> <<0, 0 - 10, 0 - 10, 0, 10, 10, 10, 0, 0 - 10>>

SgdTableY(sgd_type) ==
    CASE sgd_type = "9circle" -> <<0, 20, 15, 0, 0 - 15, 0 - 20, 0 - 15, 0, 15>>
      [] sgd_type = "5box" -> <<0, 15, 15, 0 - 15, 0 - 15>>
      [] sgd_type = "5diamond" -> <<0, 20, 0 - 20, 20, 0 - 20>>
      [] sgd_type = "5bar" -> <<0, 20, 10, 0 - 10, 0 - 20>>
      [] sgd_type = "3bar" -> <<0, 15, 0 - 15>>
      [] sgd_type = "5miri" -> <<0, 10, 10, 0 - 10, 0 - 10>>
      [] sgd_type = "9miri" -> <<0, 0, 10, 10, 10, 0, 0 - 10, 0 - 10, 0 - 10>>

SgdTypes == {"9circle", "5box", "5diamond", "5bar", "3bar", "5miri", "9miri"}

\* np.random.normal(scale=std, size=n): one draw per element, here the
\* same number of standard deviations for each, with alternating sign
NormalDraw(std, n, k) == [i \in 1..n |-> IF i % 2 = 1 THEN k * std ELSE 0 - (k * std)]

\* array of mas (whole numbers) in units of 0.1 mas
MasArray(table) == [i \in 1..Len(table) |-> 10 * table[i]]

\* xoff_msec += x_point
AddScalar(arr, v) == [i \in 1..Len(arr) |-> arr[i] + v]

AddFsmToAll(arr, noise) == [i \in 1..Len(arr) |-> arr[i] + noise[i]]

\* xoff_msec[1:] += x_fsm[1:]
AddFsm(arr, noise) == [i \in 1..Len(arr) |-> IF i = 1 THEN arr[i] ELSE arr[i] + noise[i]]

\* One axis of gen_sgd_offsets: the table, the slew error on every point,
\* the mirror error on every point but the first
SgdAxis(table, slew_std, fsm_std, k_point, k_fsm) ==
    AddFsm(AddScalar(MasArray(table), IF slew_std > 0 THEN k_point * slew_std ELSE 0),
           IF fsm_std > 0 THEN NormalDraw(fsm_std, Len(table), k_fsm)
           ELSE [i \in 1..Len(table) |-> 0])

\* gen_sgd_offsets; draw holds the numbers of standard deviations drawn
gen_sgd_offsets(sgd_type, slew_std, fsm_std, draw) ==
    IF sgd_type \notin SgdTypes
    THEN [exc |-> "ValueError", x |-> << >>, y |-> << >>]
    ELSE [exc |-> "none",
          x |-> SgdAxis(SgdTableX(sgd_type), slew_std, fsm_std, draw.xp, draw.xf),
          y |-> SgdAxis(SgdTableY(sgd_type), slew_std, fsm_std, draw.yp, draw.yf)]

\* An argument left out of a call
Omitted == 0 - 1000002

KwArgOmittedIsNone(v, default) == IF v = Omitted THEN NoneNum ELSE v

\* The value of a keyword argument: its default when left out
KwArg(v, default) == IF v = Omitted THEN default ELSE v

\* if base_std is None: base_std = 5.0 if use_ta else 100
BaseStd(base_std, use_ta) ==
    IF base_std = NoneNum THEN (IF use_ta THEN 50 ELSE 1000) ELSE base_std

\* if dith_xy[0]==dith_xy[1]==0: dith_std = 0
\* elif dith_std is None: dith_std = 2.5 if use_sgd else 5.0
DithStd(dith_xy, dith_std, use_sgd) ==
    IF (dith_xy[1] = dith_xy[2]) /\ (dith_xy[2] = 0) THEN 0
    ELSE IF dith_std = NoneNum THEN (IF use_sgd THEN 25 ELSE 50)
    ELSE dith_std

\* get_idl_offset(base_offset=(0,0), dith_offset=(0,0), base_std=0,
\* use_ta=True, dith_std=0, use_sgd=True): the standard deviations used and
\* the offset drawn
get_idl_offset(a, k) ==
    [base_std |-> BaseStd(KwArg(a.base_std, 0), a.use_ta),
     dith_std |-> DithStd(a.dith_offset, KwArg(a.dith_std, 0), a.use_sgd),
     offset |-> [i \in 1..2 |->
                    a.base_offset[i] + k * BaseStd(KwArg(a.base_std, 0), a.use_ta)
                    + a.dith_offset[i]
                    + k * DithStd(a.dith_offset, KwArg(a.dith_std, 0), a.use_sgd)]]

Draws == {0 - 1, 0, 1}

SgdArgs ==
    [sgd_type : SgdTypes \cup {"7hex", ""}, slew_std : {0, 50}, fsm_std : {0, 25},
     draw : [xp : Draws, yp : {1}, xf : {1}, yf : {0 - 1}]]

IdlArgs ==
    [base_offset : {<<1000, 0 - 500>>},
     dith_offset : {<<0, 0>>, <<100, 100>>, <<0, 100>>},
     base_std : {Omitted, NoneNum, 30}, use_ta : BOOLEAN,
     dith_std : {Omitted, NoneNum, 30}, use_sgd : BOOLEAN]

CoordCall(op, a, exc, ret) ==
    [op |-> op, a |-> a, exc |-> exc, path |-> "", nsim |-> 0, ret |-> ret]

GenSgdOffsets ==
    /\ \E a \in SgdArgs :
          call' = CoordCall("gen_sgd_offsets", a,
                            gen_sgd_offsets(a.sgd_type, a.slew_std, a.fsm_std, a.draw).exc,
                            gen_sgd_offsets(a.sgd_type, a.slew_std, a.fsm_std, a.draw))
    /\ UNCHANGED <<inst, disk, logging_level, ncalls>>

GetIdlOffset ==
    /\ \E a \in IdlArgs : \E k \in {0, 1} :
          call' = CoordCall("get_idl_offset", a, "none", get_idl_offset(a, k))
    /\ UNCHANGED <<inst, disk, logging_level, ncalls>>

CoordNext ==
    \/ GenSgdOffsets
    \/ GetIdlOffset

CoordSpec == Init /\ [][CoordNext]_vars

----------------------------------------------------------------------------
(* image_manip: pad_or_cut_to_size and fshift.  An array is a record of    *)
(* its number of dimensions and its values as a sequence of rows, a single *)
(* row for one dimension.  Shifts are whole pixels, so the interpolation   *)
(* of a fractional part (fracx, fracy) is never entered.                   *)

Array1(v) == [ndim |-> 1, v |-> <<v>>]

Array2(rows) == [ndim |-> 2, v |-> rows]

\* array.shape
Shape(array) ==
    IF array.ndim = 1 THEN <<Len(array.v[1])>> ELSE <<Len(array.v), Len(array.v[1])>>

Smaller(a, b) == IF a < b THEN a ELSE b

\* np.pad(image, k, 'constant', constant_values=cval) of one dimension
Pad1(s, k, cval) ==
    [j \in 1..(Len(s) + 2 * k) |-> IF (j - k) \in 1..Len(s) THEN s[j - k] ELSE cval]

\* np.roll(out, k): the element at j moves to j+k, modulo the length
Roll1(s, k) == [j \in 1..Len(s) |-> s[((j - 1 - k) % Len(s)) + 1]]

\* out[a:a+n], clipped at the end of the array as a Python slice is
Slice1(s, a, n) == SubSeq(s, a + 1, Smaller(a + n, Len(s)))

\* np.pad(image, ([pady]*2, [padx]*2), 'constant', constant_values=cval)
Pad2(rows, pady, padx, cval) ==
    [r \in 1..(Len(rows) + 2 * pady) |->
        [c \in 1..(Len(rows[1]) + 2 * padx) |->
            IF (r - pady) \in 1..Len(rows) /\ (c - padx) \in 1..Len(rows[1])
            THEN rows[r - pady][c - padx] ELSE cval]]

\* np.roll(np.roll(out, intx, axis=1), inty, axis=0)
Roll2(rows, intx, inty) ==
    [r \in 1..Len(rows) |->
        [c \in 1..Len(rows[1]) |->
            rows[((r - 1 - inty) % Len(rows)) + 1][((c - 1 - intx) % Len(rows[1])) + 1]]]

\* out[pady:pady+ny, padx:padx+nx]
Slice2(rows, pady, padx, ny, nx) ==
    [r \in 1..(Smaller(pady + ny, Len(rows)) - pady) |->
        Slice1(rows[r + pady], padx, nx)]

\* The branch of fshift for len(image.shape) == 1: the array is padded by
\* abs(intx) on each side and cut from padx = abs(intx) + 1
fshift1(image, delx, pad, cval) ==
    IF delx = 0 THEN image
    ELSE IF pad
         THEN Slice1(Roll1(Pad1(image, Abs(delx), cval), delx), Abs(delx) + 1, Len(image))
         ELSE Slice1(Roll1(image, delx), 0, Len(image))

\* The branch of fshift for len(image.shape) == 2: the array is padded by
\* pady = abs(inty) + 1 and padx = abs(intx) + 1 and cut from (pady, padx)
fshift2(image, delx, dely, pad, cval) ==
    IF delx = 0 /\ dely = 0 THEN image
    ELSE IF pad
         THEN Slice2(Roll2(Pad2(image, Abs(dely) + 1, Abs(delx) + 1, cval), delx, dely),
                     Abs(dely) + 1, Abs(delx) + 1, Len(image), Len(image[1]))
         ELSE Slice2(Roll2(image, delx, dely), 0, 0, Len(image), Len(image[1]))

\* fshift(image, delx=0, dely=0, pad=False, cval=0.0)
fshift(image, delx, dely, pad, cval) ==
    IF image.ndim = 1 THEN Array1(fshift1(image.v[1], delx, pad, cval))
    ELSE Array2(fshift2(image.v, delx, dely, pad, cval))

\* np.zeros(shape=(ny_new, nx_new)) + fill_val
Filled(ny_new, nx_new, fill_val) == [r \in 1..ny_new |-> [c \in 1..nx_new |-> fill_val]]

\* output[m0:m1, n0:n1] = array
Paste(output, array, m0, m1, n0, n1) ==
    [r \in 1..Len(output) |->
        [c \in 1..Len(output[1]) |->
            IF (r > m0) /\ (r <= m1) /\ (c > n0) /\ (c <= n1)
            THEN array[r - m0][c - n0] ELSE output[r][c]]]

CropFromOrigin(array, m0, m1, n0, n1) ==
    [r \in 1..(Smaller(m1, Len(array)) - m0) |->
        [c \in 1..(Smaller(n1, Len(array[1])) - n0) |-> array[r][c]]]

\* array[m0:m1, n0:n1]
Crop(array, m0, m1, n0, n1) ==
    [r \in 1..(Smaller(m1, Len(array)) - m0) |->
        [c \in 1..(Smaller(n1, Len(array[1])) - n0) |-> array[r + m0][c + n0]]]

\* n0 = int(n0 + 0.5) of the half difference of the old and new lengths
CutStart(n, n_new) == IF n_new = n THEN 0 ELSE PyInt(Abs(n_new - n) + 1)

\* n1 = int(n1 + 0.5) of n0 plus the shorter of the two lengths
CutStop(n, n_new) ==
    IF n_new = n THEN n ELSE PyInt(Abs(n_new - n) + 2 * Smaller(n, n_new) + 1)

\* array.reshape((1,1,-1)) of one dimension, array.reshape([nz,ny,nx]) of two
AsRows(array) == array.v

\* ny_new, nx_new of a tuple, or of a single value
NewShape(array, new_shape) ==
    IF array.ndim = 1 THEN <<1, new_shape[1]>>
    ELSE IF Len(new_shape) < 2 THEN <<new_shape[1], new_shape[1]>>
    ELSE new_shape

\* ny_off, nx_off
PixelShift(array, offset_vals) ==
    IF offset_vals.kind = "None" THEN <<0, 0>>
    ELSE IF array.ndim = 1 THEN <<0, offset_vals.v[1]>>
    ELSE offset_vals.v

\* The four cases of the old and new lengths, on rows
PadOrCutRows(array, ny_new, nx_new, fill_val, ny_off, nx_off, m0, m1, n0, n1) ==
    IF (nx_new >= Len(array[1])) /\ (ny_new >= Len(array))
    THEN fshift2(Paste(Filled(ny_new, nx_new, fill_val), array, m0, m1, n0, n1),
                 nx_off, ny_off, TRUE, fill_val)
    ELSE IF (nx_new <= Len(array[1])) /\ (ny_new <= Len(array))
    THEN IF (nx_off # 0) \/ (ny_off # 0)
         THEN Crop(fshift2(array, nx_off, ny_off, TRUE, fill_val), m0, m1, n0, n1)
         ELSE Crop(array, m0, m1, n0, n1)
    ELSE IF (nx_new <= Len(array[1])) /\ (ny_new >= Len(array))
    THEN fshift2(Paste(Filled(ny_new, nx_new, fill_val),
                       Crop(IF nx_off # 0 THEN fshift2(array, nx_off, 0, TRUE, fill_val)
                            ELSE array, 0, Len(array), n0, n1),
                       m0, m1, 0, nx_new),
                 0, ny_off, TRUE, fill_val)
    ELSE fshift2(Paste(Filled(ny_new, nx_new, fill_val),
                       Crop(IF ny_off # 0 THEN fshift2(array, 0, ny_off, TRUE, fill_val)
                            ELSE array, m0, m1, 0, Len(array[1])),
                       0, ny_new, n0, n1),
                 nx_off, 0, TRUE, fill_val)

\* output.flatten() of one dimension, output[0] of two
Unstack(array, rows) == IF array.ndim = 1 THEN Array1(rows[1]) ELSE Array2(rows)

\* pad_or_cut_to_size(array, new_shape, fill_val=0.0, offset_vals=None).  The
\* early return compares the reshaped (nz, ny, nx) with the two values of
\* new_shape, which are never equal.
pad_or_cut_to_size(array, new_shape, fill_val, offset_vals) ==
    IF (offset_vals.kind # "None")
          /\ Len(offset_vals.v) # (IF array.ndim = 1 THEN 1 ELSE 2)
    THEN [exc |-> "ValueError", ret |-> NoneObj]
    ELSE IF (<<1>> \o Shape(Array2(AsRows(array))) = NewShape(array, new_shape))
               /\ (offset_vals.kind = "None")
    THEN [exc |-> "none", ret |-> Array2(AsRows(array))]
    ELSE [exc |-> "none",
          ret |-> Unstack(array,
                     PadOrCutRows(AsRows(array),
                                  NewShape(array, new_shape)[1], NewShape(array, new_shape)[2],
                                  fill_val,
                                  PixelShift(array, offset_vals)[1],
                                  PixelShift(array, offset_vals)[2],
                                  CutStart(Len(AsRows(array)), NewShape(array, new_shape)[1]),
                                  CutStop(Len(AsRows(array)), NewShape(array, new_shape)[1]),
                                  CutStart(Len(AsRows(array)[1]), NewShape(array, new_shape)[2]),
                                  CutStop(Len(AsRows(array)[1]), NewShape(array, new_shape)[2])))]

\* The largest side of a target shape, and the largest shift in pixels
MaxSide == 5

MaxShift == 3

\* An image whose every pixel has a value of its own
Ramp(ny, nx) == [r \in 1..ny |-> [c \in 1..nx |-> 10 * r + c]]

TestArrays ==
    {Array2(Ramp(ny, nx)) : ny \in {2, 3}, nx \in {2, 3}}
        \cup {Array1(Ramp(1, 3)[1]), Array1(Ramp(1, 2)[1])}

SomeTuple(v) == [kind |-> "tuple", v |-> v]

\* The shapes asked of an array: a tuple per axis, or a single value
TargetShapes(array) ==
    IF array.ndim = 1 THEN {<<n>> : n \in 1..MaxSide}
    ELSE {<<n>> : n \in {4}} \cup {<<m, n>> : m \in 1..MaxSide, n \in 1..MaxSide}

\* fill_val and offset_vals: the defaults, a fill, a shift, a shift of the
\* wrong length
FillAndOffset ==
    {[fill_val |-> 0, offset_vals |-> NoneObj],
     [fill_val |-> 7, offset_vals |-> NoneObj],
     [fill_val |-> 0, offset_vals |-> SomeTuple(<<1, 0 - 1>>)],
     [fill_val |-> 7, offset_vals |-> SomeTuple(<<0 - 1, 2>>)],
     [fill_val |-> 7, offset_vals |-> SomeTuple(<<1>>)]}

\* The arguments of a call that has not been made yet
Pending(a) == [op |-> "args", a |-> a, exc |-> "none", path |-> "", nsim |-> 0]

\* The module's functions are called on arrays: no instrument is constructed,
\* and the arguments of the call are drawn
ImageInit(args) ==
    /\ inst = NoneObj
    /\ disk = [files |-> << >>, dirs |-> {}]
    /\ logging_level = "INFO"
    /\ call \in {Pending(a) : a \in args}
    /\ ncalls = 0

ImageCall(op, a, exc, ret) ==
    [op |-> op, a |-> a, exc |-> exc, path |-> "", nsim |-> 0, ret |-> ret]

PadArgs ==
    UNION {{[array |-> im, new_shape |-> s, fill_val |-> f.fill_val,
             offset_vals |-> f.offset_vals, again |-> FALSE] :
                s \in TargetShapes(im), f \in FillAndOffset} : im \in TestArrays}

\* The record of a call of pad_or_cut_to_size and of what it returned
PadCall(a, r) == ImageCall("pad_or_cut_to_size", a, r.exc, r.ret)

\* A call on a fresh array
PadOrCutToSize ==
    /\ call.op = "args"
    /\ call' = PadCall(call.a, pad_or_cut_to_size(call.a.array, call.a.new_shape,
                                                  call.a.fill_val, call.a.offset_vals))
    /\ UNCHANGED <<inst, disk, logging_level, ncalls>>

\* A call on the array the previous call returned
PadOrCutAgain ==
    /\ call.op = "pad_or_cut_to_size"
    /\ call.exc = "none"
    /\ ~call.a.again
    /\ \E s \in {Shape(call.a.array), <<2>>} :
          call' = PadCall([array |-> call.ret, new_shape |-> s, fill_val |-> 0,
                           offset_vals |-> NoneObj, again |-> TRUE],
                          pad_or_cut_to_size(call.ret, s, 0, NoneObj))
    /\ UNCHANGED <<inst, disk, logging_level, ncalls>>

PadNext ==
    \/ PadOrCutToSize
    \/ PadOrCutAgain

PadInit == ImageInit(PadArgs)

PadSpec == PadInit /\ [][PadNext]_vars

ShiftArgs ==
    {a \in [image : TestArrays, delx : (0 - MaxShift)..MaxShift, dely : {0 - 1, 0, 2},
            pad : BOOLEAN, cval : {0, 7}] : (a.image.ndim = 1) => (a.dely = 0)}

Fshift ==
    /\ call.op = "args"
    /\ call' = ImageCall("fshift", call.a, "none",
                         fshift(call.a.image, call.a.delx, call.a.dely, call.a.pad,
                                call.a.cval))
    /\ UNCHANGED <<inst, disk, logging_level, ncalls>>

ShiftInit == ImageInit(ShiftArgs)

ShiftSpec == ShiftInit /\ [][Fshift]_vars

----------------------------------------------------------------------------
(* image_manip: frebin.  The floating point numbers of the code are exact  *)
(* fractions here: a result is its numerators and one denominator, and a   *)
(* position i * sbox = i * ns / nsout is kept in units of 1/nsout.         *)

RECURSIVE SumSeq(_)
SumSeq(s) == IF s = << >> THEN 0 ELSE s[1] + SumSeq(Tail(s))

\* np.sum of an array of rows
SumRows(rows) == SumSeq([r \in 1..Len(rows) |-> SumSeq(rows[r])])

\* np.transpose
Transpose(rows) == [c \in 1..Len(rows[1]) |-> [r \in 1..Len(rows) |-> rows[r][c]]]

\* image.reshape((nl, ns)) of the values in row order
Reshape(rows, nl, ns) ==
    [r \in 1..nl |->
        [c \in 1..ns |->
            rows[(((r - 1) * ns + c - 1) \div Len(rows[1])) + 1]
                [(((r - 1) * ns + c - 1) % Len(rows[1])) + 1]]]

\* poppy.utils.krebin(a, (nlout, nsout)): the sum of each block of
\* nl // nlout rows and ns // nsout columns
krebin(rows, nlout, nsout) ==
    [i \in 1..nlout |->
        [k \in 1..nsout |->
            SumSeq([t \in 1..((Len(rows) \div nlout) * (Len(rows[1]) \div nsout)) |->
                rows[(i - 1) * (Len(rows) \div nlout)
                        + ((t - 1) \div (Len(rows[1]) \div nsout)) + 1]
                    [(k - 1) * (Len(rows[1]) \div nsout)
                        + ((t - 1) % (Len(rows[1]) \div nsout)) + 1]])]]

\* istart = int(rstart), with rstart = i * n / nout
BinStart(i, n, nout) == (i * n) \div nout

\* istop = int(rstop) if int(rstop) < n - 1 else n - 1, with rstop = rstart + n / nout
BinStop(i, n, nout) ==
    IF ((i + 1) * n) \div nout < n - 1 THEN ((i + 1) * n) \div nout ELSE n - 1

\* frac1 = rstart - istart, in units of 1/nout
Frac1(i, n, nout) == i * n - BinStart(i, n, nout) * nout

\* frac2 = 1.0 - (rstop - istop), in units of 1/nout
Frac2(i, n, nout) == nout - ((i + 1) * n - BinStop(i, n, nout) * nout)

\* What output bin i takes of input pixel j, in units of 1/nout: the sum
\* of the pixels istart..istop less frac1 of the first and frac2 of the last
BinWeight(i, j, n, nout) ==
    (IF (j >= BinStart(i, n, nout)) /\ (j <= BinStop(i, n, nout)) THEN nout ELSE 0)
        - (IF j = BinStart(i, n, nout) THEN Frac1(i, n, nout) ELSE 0)
        - (IF j = BinStop(i, n, nout) THEN Frac2(i, n, nout) ELSE 0)

\* One loop of frebin along the first axis: row i of the result is the
\* weighted sum of the rows istart..istop, in units of 1/nout
RebinLines(rows, nout) ==
    [i \in 1..nout |->
        [c \in 1..Len(rows[1]) |->
            SumSeq([r \in 1..Len(rows) |->
                       BinWeight(i - 1, r - 1, Len(rows), nout) * rows[r][c]])]]

\* dimensions as a list of one value per axis, from dimensions or from scale
Dimensions(image, dimensions, scale) ==
    IF dimensions.kind = "int" THEN [i \in 1..image.ndim |-> dimensions.n]
    ELSE IF dimensions.kind = "tuple" THEN dimensions.v
    ELSE [i \in 1..image.ndim |-> scale * Shape(image)[i]]

\* result / (sbox * lbox), or the result as it is for total=True
Rebinned(ndim, num, den, total, nl, ns, nlout, nsout) ==
    [exc |-> "none",
     ret |-> IF total THEN [ndim |-> ndim, v |-> num, den |-> den]
             ELSE [ndim |-> ndim,
                   v |-> [r \in 1..Len(num) |->
                            [c \in 1..Len(num[1]) |-> num[r][c] * (nsout * nlout)]],
                   den |-> den * (ns * nl)]]

Raised(exc) == [exc |-> exc, ret |-> NoneObj]

\* frebin once nl, ns, nlout and nsout are set
RebinSized(image, total, nl, ns, nlout, nsout) ==
    IF (ns % nsout = 0) /\ (nl % nlout = 0)
    THEN IF nl * ns # Len(image.v) * Len(image.v[1])
         THEN Raised("ValueError")
         ELSE [exc |-> "none",
               ret |-> [ndim |-> IF nl = 1 THEN 1 ELSE 2,
                        v |-> krebin(Reshape(image.v, nl, ns), nlout, nsout),
                        den |-> IF total THEN 1 ELSE (ns \div nsout) * (nl \div nlout)]]
    ELSE IF nl = 1
    THEN IF image.ndim = 1
         THEN Rebinned(1, Transpose(RebinLines(Transpose(image.v), nsout)), nsout,
                       total, nl, ns, nlout, nsout)
         ELSE IF BinStop(0, ns, nsout) >= Len(image.v) THEN Raised("IndexError")
         ELSE IF Len(image.v[1]) > 1 THEN Raised("ValueError")
         ELSE Rebinned(1, Transpose(RebinLines(Reshape(image.v, ns, 1), nsout)), nsout,
                       total, nl, ns, nlout, nsout)
    ELSE Rebinned(2, Transpose(RebinLines(Transpose(RebinLines(image.v, nlout)), nsout)),
                  nlout * nsout, total, nl, ns, nlout, nsout)

\* nlout, nsout = dimensions; nl, ns = shape unless nlout is 1
RebinTo(image, dims, total) ==
    IF image.ndim = 1
    THEN RebinSized(image, total, 1, Len(image.v[1]), 1, dims[1])
    ELSE IF dims[1] # 1
    THEN RebinSized(image, total, Len(image.v), Len(image.v[1]), dims[1], dims[2])
    ELSE RebinSized(image, total, 1, Len(image.v), 1, dims[2])

\* frebin(image, dimensions=None, scale=None, total=True)
frebin(image, dimensions, scale, total) ==
    IF (dimensions.kind = "None") /\ (scale = NoneNum) THEN Raised("RuntimeError")
    ELSE IF (dimensions.kind = "tuple") /\ (Len(dimensions.v) # image.ndim)
    THEN Raised("RuntimeError")
    ELSE RebinTo(image, Dimensions(image, dimensions, scale), total)

\* Images of uneven values
Bumpy(ny, nx) == [r \in 1..ny |-> [c \in 1..nx |-> r * r + 3 * c]]

RebinArrays ==
    {Array2(Bumpy(ny, nx)) : ny \in {2, 3}, nx \in {2, 3}}
        \cup {Array2(Bumpy(4, 2)), Array2(Bumpy(1, 3)), Array2(Ramp(2, 3))}
        \cup {Array1(Bumpy(1, n)[1]) : n \in 1..4}

SomeInt(n) == [kind |-> "int", n |-> n]

RebinDimensions ==
    {SomeInt(2), SomeInt(3)}
        \cup {SomeTuple(<<n>>) : n \in 1..MaxSide}
        \cup {SomeTuple(<<m, n>>) : m \in 1..MaxSide, n \in 1..MaxSide}

\* A target size, a scale, or neither
RebinArgs ==
    [image : RebinArrays, dimensions : RebinDimensions, scale : {NoneNum},
     total : BOOLEAN]
        \cup [image : RebinArrays, dimensions : {NoneObj}, scale : {NoneNum, 2},
              total : BOOLEAN]

\* The record of a call of frebin and of what it returned
RebinCall(a, r) == ImageCall("frebin", a, r.exc, r.ret)

Frebin ==
    /\ call.op = "args"
    /\ call' = RebinCall(call.a, frebin(call.a.image, call.a.dimensions, call.a.scale,
                                        call.a.total))
    /\ UNCHANGED <<inst, disk, logging_level, ncalls>>

RebinInit == ImageInit(RebinArgs)

RebinSpec == RebinInit /\ [][Frebin]_vars

----------------------------------------------------------------------------
(* gen_psf_coeff: which wavelength each image of the fitted stack belongs  *)
(* to, for every order in which the workers of the pool complete.          *)

\* The number of wavelengths of one simulation
FitWaves == 5

\* _wrap_coeff_for_mp of worker_arguments[i]: the PSF at waves[i]
PsfAt(i) == [kind |-> "ok", exc |-> "none", wave |-> i]

\* worker_arguments = [(inst_copy, wlen, fov_pix, oversample) for wlen in waves]
WorkerResults(n) == [i \in 1..n |-> PsfAt(i)]

\* The orders in which n workers can complete
CompletionOrders(n) ==
    {f \in [1..n -> 1..n] : \A i \in 1..n : \A j \in 1..n : (f[i] = f[j]) => (i = j)}

\* What the loop over the workers sees: with a pool, the results as they
\* complete; without one, each result as its item is run
Arrivals(nproc, results, order) ==
    IF nproc > 1 THEN [k \in 1..Len(results) |-> results[order[k]]] ELSE results

\* jl_poly_fit(waves, images, ...): the image at index i is fitted at waves[i]
FitStack(images) == [i \in 1..Len(images) |-> [wave |-> i, image |-> images[i]]]

\* The simulations and the stack handed to the fit
SimulateAndStack(nproc, order) ==
    FitStack(SimulatePsfs(nproc, Arrivals(nproc, WorkerResults(Len(order)), order)).ret)

OrderArgs == [nproc : {1, 2, 4}, order : CompletionOrders(FitWaves)]

FitPsfs ==
    /\ call.op = "args"
    /\ call' = ImageCall("fit_psfs", call.a, "none",
                         SimulateAndStack(call.a.nproc, call.a.order))
    /\ UNCHANGED <<inst, disk, logging_level, ncalls>>

OrderInit == ImageInit(OrderArgs)

OrderSpec == OrderInit /\ [][FitPsfs]_vars

----------------------------------------------------------------------------
(* gen_wfemask_coeff: which cube each residual of the final model is made  *)
(* of.                                                                     *)

\* The first-pass offsets of one axis, from the combined grid of the model
FirstPassGrid(vals, mirrored) ==
    IF mirrored THEN SubSeq(vals, 1, (Len(vals) + 1) \div 2) ELSE vals

\* The first-pass point whose cube is copied to pt by the symmetries: the
\* mirror image of pt in the quadrant (for a bar, the half) that was swept
SweptPoint(bar, pt) ==
    IF bar THEN <<pt[1], 0 - Abs(pt[2])>> ELSE <<0 - Abs(pt[1]), 0 - Abs(pt[2])>>

\* cf_all[i] for the point pt of xy_list
FirstPassCube(resid, xy_list, pt) ==
    resid.cf_all[CHOOSE k \in 1..Len(xy_list) : xy_list[k] = pt]

\* The cube whose difference from coeff0 is the residual at pt in
\* cf_resid_all: the second-pass cube where ind_sgd holds, else the
\* first-pass cube of the swept point
CubeAt(resid, xvals, yvals, pt) ==
    IF \E k \in 1..Len(resid.cf_sgd) :
          (resid.cf_sgd[k].x = pt[1]) /\ (resid.cf_sgd[k].y = pt[2])
    THEN resid.cf_sgd[CHOOSE k \in 1..Len(resid.cf_sgd) :
                         (resid.cf_sgd[k].x = pt[1]) /\ (resid.cf_sgd[k].y = pt[2])].cf
    ELSE FirstPassCube(resid,
                       MeshList(FirstPassGrid(xvals, ~resid.bar), FirstPassGrid(yvals, TRUE)),
                       SweptPoint(resid.bar, pt))

\* The grid points of the final model
ModelPoints(xvals, yvals) ==
    {<<xvals[i], yvals[j]>> : i \in 1..Len(xvals), j \in 1..Len(yvals)}

----------------------------------------------------------------------------
(* drift_opd on its own: every drift amplitude of a small range, of either *)
(* sign, on every form of OPD source.                                      *)

\* The largest drift amplitude drawn, in nm
MaxDrift == 6

\* The forms an OPD argument takes: None, a (file, slice) tuple, an HDUList,
\* a linear model
OpdForms ==
    {NoneObj,
     [kind |-> "tuple", file |-> "OPD_RevW_ote_for_NIRCam_predicted.fits", slice |-> 3],
     [kind |-> "hdul", origin |-> "custom.fits", slice |-> 0],
     [kind |-> "lm", origin |-> "custom.fits", slice |-> 0, own |-> TRUE, drift |-> NoDrift]}

DriftArgs == [wfe_drift : (0 - MaxDrift)..MaxDrift, opd : OpdForms]

DriftOpd ==
    /\ call.op = "args"
    /\ call' = ImageCall("drift_opd", call.a,
                         _drift_opd(World, call.a.wfe_drift, call.a.opd).exc,
                         _drift_opd(World, call.a.wfe_drift, call.a.opd).ret)
    /\ UNCHANGED <<inst, disk, logging_level, ncalls>>

DriftInit ==
    /\ \E i \in {j \in Instruments : j.pupil_mask = NoneVal} :
          inst = _init_inst(i.name, i.filter, i.pupil_mask, i.image_mask, i.fov_pix, NoneNum)
    /\ disk = [files |-> << >>, dirs |-> {}]
    /\ logging_level = "INFO"
    /\ call \in {Pending(a) : a \in DriftArgs}
    /\ ncalls = 0

DriftSpec == DriftInit /\ [][DriftOpd]_vars

----------------------------------------------------------------------------
(* gen_psf_coeff with a drift, then without, on every form of the          *)
(* configured OPD source.                                                  *)

\* The instrument of a preset with pupilopd set to an OPD source
WithOpd(i, opd) ==
    [_init_inst(i.name, i.filter, i.pupil_mask, i.image_mask, i.fov_pix, NoneNum)
        EXCEPT !.cfg.pupilopd = opd]

\* The world right after that construction
FreshWorld(a) ==
    [inst |-> WithOpd(a.preset, a.opd), disk |-> [files |-> << >>, dirs |-> {}],
     log |-> "INFO"]

\* gen_psf_coeff(wfe_drift=d, force=True, save=False)
ForcedGen(a, d) ==
    [wfe_drift |-> d, force |-> TRUE, save |-> FALSE, return_results |-> FALSE,
     bar_offset |-> 0, fail |-> FALSE, preset |-> a.preset, opd |-> a.opd,
     drift |-> a.drift]

OpdArgs == [preset : Instruments, opd : OpdForms, drift : {1, 2, 5}]

GenDrifted ==
    /\ call.op = "args"
    /\ Finish("gen_psf_coeff", ForcedGen(call.a, call.a.drift),
              gen_psf_coeff(World, ForcedGen(call.a, call.a.drift), FALSE))

GenUndrifted ==
    /\ call.op = "gen_psf_coeff"
    /\ call.a.wfe_drift > 0
    /\ Finish("gen_psf_coeff", ForcedGen(call.a, 0),
              gen_psf_coeff(World, ForcedGen(call.a, 0), FALSE))

OpdNext ==
    \/ GenDrifted
    \/ GenUndrifted

OpdInit ==
    /\ \E a \in OpdArgs :
          /\ inst = WithOpd(a.preset, a.opd)
          /\ call = Pending(a)
    /\ disk = [files |-> << >>, dirs |-> {}]
    /\ logging_level = "INFO"
    /\ ncalls = 0

OpdSpec == OpdInit /\ [][OpdNext]_vars

----------------------------------------------------------------------------
(* The properties.                                                         *)

\* What a computing call of gen_psf_coeff produced: returned, or stored
Generated(a, r) ==
    IF a.return_results THEN [data |-> r.ret.data, hdr |-> r.ret.hdr]
    ELSE [data |-> r.w.inst.psf_coeff, hdr |-> r.w.inst.psf_coeff_header]

RoundTripLoads(produced, r2) ==
    /\ r2.exc = "none"
    /\ r2.path = "hit"
    /\ r2.nsim = 0
    /\ r2.ret.data = produced.data
    /\ r2.ret.hdr = produced.hdr

RoundTripAfter(a, r1) ==
    (r1.exc = "none" /\ r1.path = "compute")
        => RoundTripLoads(Generated(a, r1),
                          gen_psf_coeff(r1.w, [a EXCEPT !.force = FALSE,
                                                        !.return_results = TRUE], FALSE))

\* C1: when gen_psf_coeff has generated a cube and saved it (save=True), a
\* later gen_psf_coeff with force=False on the same configuration loads a
\* cube and a header equal to the generated ones and runs no monochromatic
\* simulation; and a call that ended in the cache holds what the file holds.
C1_CacheRoundTrip ==
    /\ \A a \in GenArgs :
          (a.save /\ ~a.fail) => RoundTripAfter(a, gen_psf_coeff(World, a, FALSE))
    /\ (call.op = "gen_psf_coeff" /\ call.path = "hit" /\ ~call.a.return_results)
          => /\ call.nsim = 0
             /\ \E f \in DOMAIN disk.files :
                   /\ disk.files[f].data = inst.psf_coeff
                   /\ disk.files[f].hdr = inst.psf_coeff_header

C1_Witness ==
    /\ call.op = "gen_psf_coeff"
    /\ call.path = "hit"
    /\ call.exc = "none"
    /\ call.nsim = 0
    /\ call.a.force = FALSE
    /\ inst.psf_coeff.kind = "cube"

\* C2: a gen_psf_coeff request with wfe_drift = N > 0 never ends with the
\* cube of another drift: the cube it stores was made with a drift of N nm,
\* and the file without the '-{N}nm' suffix keeps its zero-drift cube.
C2_DriftedRequestGetsDriftedCube ==
    /\ (call.op = "gen_psf_coeff" /\ call.exc = "none" /\ call.a.wfe_drift > 0
        /\ ~call.a.return_results)
          => inst.psf_coeff_header.WFEDRIFT = call.a.wfe_drift
    /\ \A f \in DOMAIN disk.files :
          (f.ext = ".fits" /\ f.base = save_name(inst.cfg))
              => disk.files[f].hdr.WFEDRIFT = 0

\* C3: a cache hit returns the cube of the requesting configuration: the
\* cube loaded by a zero-drift request was fitted with the fit degree and
\* at the detector position the object has now.
C3_HitReturnsRequestedConfiguration ==
    (call.op = "gen_psf_coeff" /\ call.path = "hit" /\ call.a.wfe_drift = 0
     /\ ~call.a.return_results)
        => /\ inst.psf_coeff.inst_copy.ndeg = inst.cfg.ndeg
           /\ inst.psf_coeff.inst_copy.detector_position = inst.cfg.detector_position
           /\ inst.psf_coeff_header.NDEG = ndeg(inst.cfg)

ReturnsAndKeeps(a, r) ==
    (r.exc = "none")
        => /\ r.path \in {"hit", "compute"}
           /\ r.ret.kind = "coeff"
           /\ r.w.inst.psf_coeff = inst.psf_coeff
           /\ r.w.inst.psf_coeff_header = inst.psf_coeff_header
           /\ (~a.save => r.w.disk.files = disk.files)

StoresWhatIsReturned(r, rr) ==
    (r.exc = "none")
        => /\ rr.exc = "none"
           /\ r.path = rr.path
           /\ r.ret = NoneObj
           /\ r.w.inst.psf_coeff = rr.ret.data
           /\ r.w.inst.psf_coeff_header = rr.ret.hdr

\* C4: gen_psf_coeff with return_results=True leaves psf_coeff and
\* psf_coeff_header as they were, on the cache-hit path and on the compute
\* path, and with save=False leaves the files on disk as they were; with
\* return_results=False it sets both attributes to the cube and header,
\* loaded or newly fitted, that return_results=True returns.
C4_ReturnResults ==
    \A a \in GenArgs :
        IF a.return_results
        THEN ReturnsAndKeeps(a, gen_psf_coeff(World, a, a.fail))
        ELSE StoresWhatIsReturned(gen_psf_coeff(World, a, a.fail),
                                  gen_psf_coeff(World, [a EXCEPT !.return_results = TRUE],
                                                a.fail))

C4_Witness ==
    /\ call.op = "gen_psf_coeff"
    /\ call.a.return_results
    /\ call.exc = "none"
    /\ call.path = "compute"
    /\ inst.psf_coeff.kind = "cube"
    /\ inst.psf_coeff_header.FORCE = FALSE

ReturnsNone(r) ==
    /\ r.exc = "none"
    /\ r.ret = NoneObj
    /\ r.w = World

\* C5: with psf_coeff None, calc_psf_from_coeff returns None, raising
\* nothing and changing nothing, for every sp, wfe_drift, coord_vals and
\* coord_frame.
C5_NoCoeffReturnsNone ==
    (inst.psf_coeff.kind = "None")
        => \A a \in CalcArgs : ReturnsNone(calc_psf_from_coeff(World, a))

C5_Witness ==
    /\ call.op = "calc_psf_from_coeff"
    /\ call.path = "nocoeff"
    /\ call.exc = "none"
    /\ inst.psf_coeff.kind = "None"

\* C6: whenever a cube exists, calc_psf_from_coeff with wfe_drift < 0 fails
\* with an assertion error, with and without an image mask, with and
\* without coord_vals.
C6_NegativeDriftAsserts ==
    (inst.psf_coeff.kind # "None")
        => \A a \in CalcArgs :
              (a.wfe_drift # NoneNum /\ a.wfe_drift < 0)
                  => calc_psf_from_coeff(World, a).exc = "AssertionError"

NoDriftCorrection(r) ==
    (r.exc = "none" /\ r.path = "psf")
        => /\ r.ret.kind = "psf"
           /\ r.ret.WFEDRIFT = 0
           /\ \A i \in DOMAIN r.ret.drift_mod : r.ret.drift_mod[i].kind = "zero"

SameOutcome(r0, rNone) ==
    /\ r0 = rNone
    /\ NoDriftCorrection(r0)

\* C7: calc_psf_from_coeff(wfe_drift=0) and calc_psf_from_coeff(wfe_drift=None)
\* end the same way, with the same image or the same exception, and the
\* drift correction is exactly 0 whether or not a drift model exists.
C7_ZeroDriftIsNoDrift ==
    \A a \in CalcArgs :
        SameOutcome(calc_psf_from_coeff(World, [a EXCEPT !.wfe_drift = 0]),
                    calc_psf_from_coeff(World, [a EXCEPT !.wfe_drift = NoneNum]))

C7_Witness ==
    /\ call.op = "calc_psf_from_coeff"
    /\ call.a.wfe_drift = NoneNum
    /\ call.exc = "none"
    /\ call.path = "psf"
    /\ inst.mod.wfe_drift.kind # "None"

ReturnsUncorrected(r) ==
    /\ r.exc = "none"
    /\ r.ret.kind = "psf"
    /\ r.ret.field_mod.kind = "zero"

\* C8: with a cube, no image mask and no field model, calc_psf_from_coeff
\* applies a zero field correction and returns a PSF without raising, with
\* and without coord_vals.
C8_NoFieldModelNoCorrection ==
    (inst.psf_coeff.kind # "None" /\ inst.cfg.image_mask = NoneVal
     /\ inst.mod.si_field.kind = "None")
        => \A a \in CalcArgs :
              (a.wfe_drift = NoneNum \/ a.wfe_drift >= 0)
                  => ReturnsUncorrected(calc_psf_from_coeff(World, a))

\* C9: a call of gen_wfedrift_coeff leaves fov_pix at the value it had
\* before the call, however the call ends: a cache hit, return_raw, a normal
\* return, or a cube generation of the sweep that raises.
C9_FovPixRestored ==
    [][(call'.op = "gen_wfedrift_coeff") => (inst'.cfg.fov_pix = inst.cfg.fov_pix)]_vars

\* C10: on every returning path of gen_wfemask_coeff (not coronagraphic,
\* cache hit, return_raw, normal completion) fov_pix and the options
\* coron_shift_x, coron_shift_y, bar_offset and nd_squares have the values
\* they had before the call; an option that was not set reads as the
\* default the code reads it with (0, 0, None, True).
C10_MaskSweepRestores ==
    [][(call'.op = "gen_wfemask_coeff" /\ call'.exc = "none")
          => /\ inst'.cfg.fov_pix = inst.cfg.fov_pix
             /\ OptGet(inst'.cfg.options, "coron_shift_x", 0)
                    = OptGet(inst.cfg.options, "coron_shift_x", 0)
             /\ OptGet(inst'.cfg.options, "coron_shift_y", 0)
                    = OptGet(inst.cfg.options, "coron_shift_y", 0)
             /\ OptGet(inst'.cfg.options, "bar_offset", NoneNum)
                    = OptGet(inst.cfg.options, "bar_offset", NoneNum)
             /\ OptGet(inst'.cfg.options, "nd_squares", 1)
                    = OptGet(inst.cfg.options, "nd_squares", 1)]_vars

C10_Witness ==
    /\ call.op = "gen_wfemask_coeff"
    /\ call.path = "compute"
    /\ call.exc = "none"
    /\ call.nsim > 0
    /\ inst.cfg.fov_pix > _fovmax_wfefield
    /\ inst.mod.si_mask.kind = "resid"

\* C11: on every path by which gen_wfefield_coeff returns (not applicable,
\* cache hit, return_raw, normal completion) detector_position and fov_pix
\* have their values of before the call, and psf_coeff and psf_coeff_header
\* are unchanged.
C11_FieldSweepRestores ==
    [][(call'.op = "gen_wfefield_coeff" /\ call'.exc = "none")
          => /\ call'.path \in {"notapplicable", "hit", "raw", "compute"}
             /\ inst'.cfg.detector_position = inst.cfg.detector_position
             /\ inst'.cfg.fov_pix = inst.cfg.fov_pix
             /\ inst'.psf_coeff = inst.psf_coeff
             /\ inst'.psf_coeff_header = inst.psf_coeff_header]_vars

C11_Witness ==
    /\ call.op = "gen_wfefield_coeff"
    /\ call.path = "compute"
    /\ call.exc = "none"
    /\ call.nsim > 0
    /\ inst.cfg.fov_pix > _fovmax_wfefield
    /\ inst.cfg.detector_position = <<512, 512>>
    /\ inst.mod.si_field.kind = "fieldresid"

\* The first worker, in order of completion, that raised
FirstRaise(outcomes) ==
    CHOOSE i \in 1..Len(outcomes) :
        /\ outcomes[i].kind = "raise"
        /\ \A j \in 1..(i - 1) : outcomes[j].kind # "raise"

\* C12: when a worker raises during the pooled simulation of gen_psf_coeff
\* or the pooled convolution of convolve_image, the pool is terminated and
\* the call fails with that worker's exception; nothing is returned.
C12_WorkerExceptionPropagates ==
    (/\ call.op \in {"simulate_psfs", "convolve_image"}
     /\ call.a.nproc > 1
     /\ \E i \in 1..Len(call.a.outcomes) : call.a.outcomes[i].kind = "raise")
        => /\ call.exc = call.a.outcomes[FirstRaise(call.a.outcomes)].exc
           /\ call.path = "terminated"
           /\ call.nsim = 0

C12_Witness ==
    /\ call.op = "convolve_image"
    /\ call.a.outcomes[1].kind = "ok"
    /\ call.a.outcomes[2] = WorkerRaises("MemoryError")
    /\ call.a.outcomes[3] = WorkerRaises("ValueError")
    /\ call.exc = "MemoryError"
    /\ call.path = "terminated"

SameComponents(computed, loaded) ==
    /\ loaded.exc = "none"
    /\ loaded.path = "hit"
    /\ loaded.ret.n = computed.ret.n
    /\ loaded.ret.cf_resid_all = computed.ret.cf_resid_all
    /\ loaded.ret.xvals = computed.ret.xvals
    /\ loaded.ret.yvals = computed.ret.yvals
    /\ loaded.ret.apname = computed.ret.apname

LoadsWhatWasComputed(computed) ==
    (computed.exc = "none" /\ computed.path = "compute")
        => SameComponents(computed,
                          gen_wfemask_coeff(computed.w,
                                            WfeMaskArg(FALSE, TRUE, TRUE, FALSE, 0), 0))

\* C13: gen_wfemask_coeff(return_results=True) returns the same components
\* (residual cube, x axis, y axis, aperture name) when the model is computed
\* and when it is loaded from the file that computation saved.
C13_MaskModelSameFromCache ==
    (is_coron(inst.cfg) /\ inst.psf_coeff.kind # "None")
        => LoadsWhatWasComputed(
               gen_wfemask_coeff(World, WfeMaskArg(TRUE, TRUE, TRUE, FALSE, 0), 0))

\* C14: for both instruments, for every value assigned to npsf (None
\* included) and every ndeg, the npsf property returns an integer that is at
\* least 5 and at least ndeg + 1.
C14_NpsfExceedsDegree ==
    /\ npsf(inst.cfg) \in Int
    /\ npsf(inst.cfg) >= 5
    /\ npsf(inst.cfg) >= ndeg(inst.cfg) + 1

C14_Witness ==
    /\ inst.cfg.npsf = 2 * 7 + 1
    /\ inst.cfg.ndeg = 7
    /\ npsf(inst.cfg) = 8

\* C15 as stated: with ndeg not set, the ndeg property returns 7 in normal
\* mode and 9 in quick mode for NIRCam_ext, 4 in quick mode and 7 in normal
\* mode for MIRI_ext, whatever use_legendre is; a set ndeg is returned as is.
C15_AsStated ==
    IF inst.cfg.ndeg # NoneNum THEN ndeg(inst.cfg) = inst.cfg.ndeg
    ELSE IF inst.cfg.name = "NIRCam"
    THEN ndeg(inst.cfg) = (IF quick(inst.cfg) THEN 9 ELSE 7)
    ELSE ndeg(inst.cfg) = (IF quick(inst.cfg) THEN 4 ELSE 7)

\* C15, amended: with ndeg not set, the ndeg property returns 7 in quick
\* mode and 9 in normal mode for NIRCam_ext, 4 in quick mode and 7 in normal
\* mode for MIRI_ext, whatever use_legendre is; a set ndeg is returned as is.
C15_DefaultDegree ==
    IF inst.cfg.ndeg # NoneNum THEN ndeg(inst.cfg) = inst.cfg.ndeg
    ELSE IF inst.cfg.name = "NIRCam"
    THEN ndeg(inst.cfg) = (IF quick(inst.cfg) THEN 7 ELSE 9)
    ELSE ndeg(inst.cfg) = (IF quick(inst.cfg) THEN 4 ELSE 7)

C15_Witness ==
    /\ inst.cfg.name = "NIRCam"
    /\ inst.cfg.ndeg = NoneNum
    /\ inst.cfg.quick = "True"
    /\ inst.cfg.use_legendre = FALSE
    /\ ndeg(inst.cfg) = 7

\* C16 as stated: get_idl_offset called without base_std and dith_std uses
\* a base standard deviation of 5 mas when use_ta is true and 100 mas
\* otherwise, and a dither standard deviation of 0 when dith_offset is
\* (0,0), else 2.5 mas when use_sgd is true, else 5 mas.
C16_AsStated ==
    (call.op = "get_idl_offset" /\ call.a.base_std = Omitted /\ call.a.dith_std = Omitted)
        => /\ call.ret.base_std = (IF call.a.use_ta THEN 50 ELSE 1000)
           /\ call.ret.dith_std = (IF call.a.dith_offset = <<0, 0>> THEN 0
                                   ELSE IF call.a.use_sgd THEN 25 ELSE 50)

\* C16, amended: get_idl_offset called with base_std=None and dith_std=None
\* uses a base standard deviation of 5 mas when use_ta is true and 100 mas
\* otherwise, and a dither standard deviation of 0 when dith_offset is
\* (0,0), else 2.5 mas when use_sgd is true, else 5 mas; called without
\* them it uses 0 for both.
C16_DefaultDeviations ==
    /\ (call.op = "get_idl_offset" /\ call.a.base_std = NoneNum /\ call.a.dith_std = NoneNum)
          => /\ call.ret.base_std = (IF call.a.use_ta THEN 50 ELSE 1000)
             /\ call.ret.dith_std = (IF call.a.dith_offset = <<0, 0>> THEN 0
                                     ELSE IF call.a.use_sgd THEN 25 ELSE 50)
    /\ (call.op = "get_idl_offset" /\ call.a.base_std = Omitted /\ call.a.dith_std = Omitted)
          => /\ call.ret.base_std = 0
             /\ call.ret.dith_std = 0
             /\ call.ret.offset = [i \in 1..2 |-> call.a.base_offset[i] + call.a.dith_offset[i]]

C16_Witness ==
    /\ call.op = "get_idl_offset"
    /\ call.a.base_std = NoneNum
    /\ call.a.dith_std = NoneNum
    /\ ~call.a.use_ta
    /\ ~call.a.use_sgd
    /\ call.a.dith_offset = <<0, 100>>
    /\ call.ret.base_std = 1000
    /\ call.ret.dith_std = 50

\* The number of points a pattern name states
PointsInName(sgd_type) ==
    CASE sgd_type \in {"9circle", "9miri"} -> 9
      [] sgd_type \in {"5box", "5diamond", "5bar", "5miri"} -> 5
      [] sgd_type = "3bar" -> 3

NoSmaller(a, b) == \A i \in 1..Len(a) : b[i] >= a[i]

\* C18: for every 2-D array and every larger target shape, of any parity of
\* the old and new lengths, pad_or_cut_to_size to the larger shape with zero
\* fill, then pad_or_cut_to_size of the result to the original shape, returns
\* the original array, and each of the two calls returns an array of the
\* shape asked of it.
C18_PadThenCut ==
    [][(/\ call.op = "pad_or_cut_to_size"
        /\ call.a.array.ndim = 2
        /\ Len(call.a.new_shape) = 2
        /\ NoSmaller(Shape(call.a.array), call.a.new_shape)
        /\ call.a.fill_val = 0
        /\ call.a.offset_vals.kind = "None"
        /\ call'.op = "pad_or_cut_to_size"
        /\ call'.a.array = call.ret
        /\ call'.a.new_shape = Shape(call.a.array)
        /\ call'.a.offset_vals.kind = "None")
          => /\ call.exc = "none"
             /\ call'.exc = "none"
             /\ Shape(call.ret) = call.a.new_shape
             /\ Shape(call'.ret) = call'.a.new_shape
             /\ call'.ret = call.a.array]_vars

C18_Witness ==
    /\ call.op = "pad_or_cut_to_size"
    /\ call.a.again
    /\ call.a.new_shape = <<3, 2>>
    /\ Shape(call.a.array) = <<4, 3>>
    /\ call.a.array.v[1] = <<0, 0, 0>>
    /\ call.ret = Array2(Ramp(3, 2))

\* The image moved by dely rows and delx columns, with cval where no pixel of
\* the image arrives
Moved(rows, delx, dely, cval) ==
    [r \in 1..Len(rows) |->
        [c \in 1..Len(rows[1]) |->
            IF (r - dely) \in 1..Len(rows) /\ (c - delx) \in 1..Len(rows[1])
            THEN rows[r - dely][c - delx] ELSE cval]]

\* C19: fshift with pad=True and a whole shift k returns an array of the
\* shape of the input with output[i] = input[i-k] where i-k is inside the
\* input and cval elsewhere, nothing wrapping around from the opposite edge,
\* for 1-D inputs and, on each axis independently, for 2-D inputs.
C19_PaddedShift ==
    (call.op = "fshift" /\ call.a.pad)
        => /\ Shape(call.ret) = Shape(call.a.image)
           /\ call.ret.v = Moved(call.a.image.v, call.a.delx, call.a.dely, call.a.cval)

\* The number of values of an array
Size(array) == Len(array.v) * Len(array.v[1])

\* The target size has one value per axis of the image, or is a single value
\* or a scale
SizeGiven(a) ==
    \/ a.dimensions.kind = "int"
    \/ a.dimensions.kind = "tuple" /\ Len(a.dimensions.v) = a.image.ndim
    \/ a.dimensions.kind = "None" /\ a.scale # NoneNum

\* C20: frebin with total=True returns an array whose sum is the sum of the
\* input, and with total=False one whose mean is the mean of the input, for
\* 1-D and 2-D inputs and every target size, the ratio of the sizes being
\* whole or fractional, shrinking or expanding.
C20_RebinConserves ==
    (call.op = "frebin" /\ SizeGiven(call.a))
        => /\ call.exc = "none"
           /\ call.a.total => (SumRows(call.ret.v) = call.ret.den * SumRows(call.a.image.v))
           /\ (~call.a.total)
                 => (SumRows(call.ret.v) * Size(call.a.image)
                        = SumRows(call.a.image.v) * call.ret.den * Size(call.ret))

\* C21: in gen_psf_coeff run with a pool of more than one worker, for every
\* order in which the workers complete, the image at index i of the stack
\* handed to the polynomial fit is the PSF simulated at waves[i].
C21_StackFollowsWavelengths ==
    (call.op = "fit_psfs" /\ call.a.nproc > 1)
        => \A i \in 1..Len(call.ret) : call.ret[i].image.wave = call.ret[i].wave

\* A mask model is stored on the instrument
HasMaskModel == inst.mod.si_mask.kind = "resid"

\* C22: in the model built by gen_wfemask_coeff, for every mask family, the
\* reference cube subtracted from all sweep cubes is the cube simulated at
\* mask offset (0,0), so the residual stored at the (0,0) grid point is zero.
C22_ZeroResidualAtOrigin ==
    HasMaskModel
        => /\ inst.mod.si_mask.coeff0.kind = "cube"
           /\ inst.mod.si_mask.coeff0.inst_copy.options["coron_shift_x"] = 0
           /\ inst.mod.si_mask.coeff0.inst_copy.options["coron_shift_y"] = 0
           /\ CubeAt(inst.mod.si_mask, inst.mod.si_mask_xgrid.v, inst.mod.si_mask_ygrid.v,
                     <<0, 0>>) = inst.mod.si_mask.coeff0

\* C23: every grid point that the first pass of gen_wfemask_coeff defers, with
\* a placeholder cube of zeros, is simulated and overwritten in the second
\* pass, for every mask family: no residual of the final model is derived
\* from a placeholder.
C23_NoPlaceholderLeft ==
    HasMaskModel
        => \A pt \in ModelPoints(inst.mod.si_mask_xgrid.v, inst.mod.si_mask_ygrid.v) :
              CubeAt(inst.mod.si_mask, inst.mod.si_mask_xgrid.v, inst.mod.si_mask_ygrid.v,
                     pt).kind = "cube"

\* The shape of a cube generated with the capped field of view
CappedShape(c) ==
    <<ndeg(c) + 1, FovCap(c, _fovmax_wfefield) * oversample(c)>>

\* The instrument as _gen_wfemask_coeff sweeps it: fov_pix capped
CappedWorld ==
    [World EXCEPT !.inst.cfg.fov_pix = FovCap(inst.cfg, _fovmax_wfefield)]

\* C30: within one run of gen_wfefield_coeff or gen_wfemask_coeff, every cube
\* that enters the residual subtraction (each sweep cube, each placeholder of
\* a deferred point and the reference cube) has the same shape, that of the
\* capped field of view, for every configured fov_pix, above the cap or not.
C30_CubesOfCappedShape ==
    (/\ call.op \in {"gen_wfemask_coeff", "gen_wfefield_coeff"}
     /\ call.path \in {"compute", "shapes"}
     /\ inst.psf_coeff.kind = "cube")
        => /\ call.path # "shapes"
           /\ CubeShape(inst.psf_coeff) = CappedShape(inst.cfg)
           /\ is_coron(inst.cfg)
                => \A pt \in {<<0, 0>>, <<0 - 150, 0 - 150>>, <<0, 0 - 100>>} :
                      LET step == MaskFirstStep(CappedWorld, MaskOffsets(inst.cfg),
                                                <<pt>>, 1, 0)
                      IN (step.exc = "none")
                            => (CubeShape(step.ret.cf[1]) = CappedShape(inst.cfg))

\* The calls that bracket their work with setup_logging
Bracketed ==
    {"get_opd_info", "gen_psf_coeff", "gen_wfedrift_coeff", "gen_wfefield_coeff",
     "gen_wfemask_coeff"}

\* C24: a call of get_opd_info, gen_psf_coeff, gen_wfedrift_coeff,
\* gen_wfefield_coeff or gen_wfemask_coeff that returns normally, with the
\* calls it nests, leaves the process-wide logging level at the value it had
\* before the call, so any sequence of such calls does; 'WARN' is the level
\* only while a call is in progress.
C24_LoggingLevelRestored ==
    [][(call'.op \in Bracketed /\ call'.exc = "none")
          => (logging_level' = logging_level)]_vars

\* A drift sweep, which nests gen_psf_coeff and get_opd_info, has returned
\* after simulating, at the level of the construction
C24_Witness ==
    /\ call.op = "gen_wfedrift_coeff"
    /\ call.exc = "none"
    /\ call.nsim > 0
    /\ logging_level = "INFO"
\* The magnitude of the drift of a drift_opd call
DriftMagnitude == IF call.a.wfe_drift < 0 THEN 0 - call.a.wfe_drift ELSE call.a.wfe_drift

\* C25: drift_opd called with a negative wfe_drift returns thermal, frill and
\* IEC terms that are the negatives of those of the same magnitude with
\* positive sign (the squares of thermal and frill are those of the
\* magnitude, the IEC term is its negative), and the returned OPD model
\* carries that drift.
C25_NegativeDriftNegated ==
    (call.op = "drift_opd" /\ call.exc = "none" /\ call.a.wfe_drift < 0)
        => /\ call.ret.therm = DriftSplit(DriftMagnitude).therm_sq5
           /\ call.ret.frill = DriftSplit(DriftMagnitude).frill_sq5
           /\ call.ret.iec = 0 - DriftSplit(DriftMagnitude).iec
           /\ call.ret.opd.drift # NoDrift

ClassOf(pt) ==
    IF pt[1] * pt[1] + pt[2] * pt[2] < 1000 * 1000 THEN "wfe_drift" ELSE "wfe_drift_off"

\* The drift corrections of a returned image are those of the classes of
\* its positions, one per position
OwnClassCorrections(a, r) ==
    IF a.coord_vals.kind = "None"
    THEN r.ret.drift_mod = <<_coeff_mod_wfe_drift(World, a.wfe_drift, "wfe_drift")>>
    ELSE /\ Len(r.ret.drift_mod) = Len(a.coord_vals.pts)
         /\ \A i \in 1..Len(a.coord_vals.pts) :
               r.ret.drift_mod[i]
                  = _coeff_mod_wfe_drift(World, a.wfe_drift, ClassOf(a.coord_vals.pts[i]))

\* C27: calc_psf_from_coeff, on an instrument with an image mask and a cube,
\* classifies each requested position on its own (on-mask within 0.1 arcsec
\* of the mask centre, off-mask elsewhere, on-mask without coord_vals), and
\* with one or several positions it adds to position i the drift correction
\* of the class of position i.
C27_OwnClassPerPosition ==
    (inst.psf_coeff.kind # "None" /\ inst.cfg.image_mask # NoneVal)
        => \A a \in CalcArgs :
              (a.coord_frame = "sci" /\ a.wfe_drift # NoneNum /\ a.wfe_drift >= 0)
                  => /\ (a.coord_vals.kind # "None")
                          => (calc_psf_from_coeff(World, a).exc = "none")
                     /\ (calc_psf_from_coeff(World, a).exc = "none")
                          => OwnClassCorrections(a, calc_psf_from_coeff(World, a))
\* C28: a gen_psf_coeff(wfe_drift=d) that returns leaves pupilopd and pupil
\* as they were before the call, for every form of the configured OPD source
\* (None, a file/slice tuple, an HDUList, a linear model), and the
\* gen_psf_coeff(wfe_drift=0) that follows it produces the cube it produces
\* on the instrument as constructed.
C28_DriftLeavesNoTrace ==
    [][(call'.op = "gen_psf_coeff" /\ call'.exc = "none")
          => /\ inst'.cfg.pupilopd = inst.cfg.pupilopd
             /\ inst'.cfg.pupil = inst.cfg.pupil
             /\ (call'.a.wfe_drift = 0)
                   => (inst'.psf_coeff
                         = gen_psf_coeff(FreshWorld(call'.a), call'.a, FALSE).w.inst.psf_coeff)]_vars


\* The cubes of the drift fits stored on the instrument
SweepCubes ==
    (IF inst.mod.wfe_drift.kind = "fit"
     THEN {inst.mod.wfe_drift.cf[i] : i \in 1..Len(inst.mod.wfe_drift.cf)} ELSE {})
    \cup
    (IF inst.mod.wfe_drift_off.kind = "fit"
     THEN {inst.mod.wfe_drift_off.cf[i] : i \in 1..Len(inst.mod.wfe_drift_off.cf)} ELSE {})

\* C29: a NIRCam_ext.gen_wfedrift_coeff that returns leaves
\* options['bar_offset'] at the value read before the call; the cubes of a
\* sweep it ran are simulated with options['bar_offset'] equal to the BAROFF
\* of psf_coeff_header; without a header it runs no sweep and returns 0.
C29_SweepAtHeaderBarOffset ==
    [][(/\ call'.op = "gen_wfedrift_coeff"
        /\ call'.exc = "none"
        /\ inst.cfg.name = "NIRCam")
          => /\ OptGet(inst'.cfg.options, "bar_offset", NoneNum)
                   = OptGet(inst.cfg.options, "bar_offset", NoneNum)
             /\ (inst.psf_coeff_header.kind = "None")
                   => (call'.path = "noheader" /\ call'.nsim = 0 /\ inst'.mod = inst.mod)
             /\ (/\ inst.psf_coeff_header.kind # "None"
                 /\ inst.psf_coeff_header.BAROFF # Absent
                 /\ call'.path = "compute"
                 /\ ~call'.a.return_results
                 /\ ~call'.a.return_raw)
                   => \A cf \in SweepCubes' :
                         cf.inst_copy.options["bar_offset"] = inst.psf_coeff_header.BAROFF]_vars

====
